---- MODULE Spec2Model ----
(***************************************************************************)
(* Wallet-and-contract interaction layer of web3-ethersjs: the useWeb3     *)
(* session hook, the useVault client and the injected EIP-1193 provider    *)
(* they talk to, the useERC20Transfer client and the token hooks useERC20  *)
(* and useERC20Balance.                                                    *)
(*                                                                         *)
(* useWeb3 keeps its state in useState cells, so every call site of        *)
(* useWeb3() owns an independent copy of the session.  Inst names the call *)
(* sites: "ui" is the copy held by VaultDashboard (its connectWallet and   *)
(* switchNetwork are wired to the buttons), "vault" is the copy created    *)
(* inside useVault, "transfer" the copy inside useERC20Transfer and "row"   *)
(* the copy a TokenBalanceRow takes its account from.  The hook returns     *)
(* connectWallet, disconnectWallet and switchNetwork at every call site, so *)
(* they are actions of every copy.                                          *)
(*                                                                         *)
(* One action is one synchronous run of a handler or of a promise          *)
(* continuation (React 19 batches the setState calls of one run).  The     *)
(* wallet (window.ethereum) is the environment: its answers are chosen     *)
(* nondeterministically.                                                   *)
(***************************************************************************)
EXTENDS Integers, Sequences, FiniteSets, TLC

\* ---------------------------------------------------------------- domains
Inst == {"ui", "vault", "transfer", "row"}
VaultSess == "vault"
TransferSess == "transfer"
RowSess == "row"

\* the hooks VaultDashboard calls itself; a TokenBalanceRow is rendered per
\* listed balance
Dashboard == {"ui", VaultSess, TransferSess}

Null == "null"
Accounts == {"0xAAA", "0xBBB"}

None == <<>>
Some(x) == <<x>>

\* chain ids the wallet can be on / be asked to switch to; 999999 has no
\* entry in SUPPORTED_NETWORKS
Chains == {11155111, 8453, 999999}

\* what the wallet exposes when the page loads: no account or the first one
\* (the accounts are interchangeable), the configured testnet or the
\* unregistered chain; the other values are reached by wallet notifications
InitialAccounts == {Null, "0xAAA"}
InitialChains == {11155111, 999999}

\* exploration bound: calls made by the page plus notifications sent by the
\* wallet on its own
MaxOps == 3

\* exploration bound: fetchBalance runs kept in balFetches at a time; a step
\* that would start one more waits
MaxInFlight == 2

\* ---------------------------------------------------------- ChainRegistry
SUPPORTED_NETWORKS ==
  [c \in {1, 11155111, 5, 8453, 84532} |->
     CASE c = 1        -> [chainId |-> 1, name |-> "Ethereum Mainnet",
                           nativeCurrency |-> "ETH",
                           explorerUrl |-> "https://etherscan.io",
                           isSupported |-> TRUE]
       [] c = 11155111 -> [chainId |-> 11155111, name |-> "Sepolia Testnet",
                           nativeCurrency |-> "ETH",
                           explorerUrl |-> "https://sepolia.etherscan.io",
                           isSupported |-> TRUE]
       [] c = 5        -> [chainId |-> 5, name |-> "Goerli Testnet",
                           nativeCurrency |-> "ETH",
                           explorerUrl |-> "https://goerli.etherscan.io",
                           isSupported |-> FALSE]
       [] c = 8453     -> [chainId |-> 8453, name |-> "Base Mainnet",
                           nativeCurrency |-> "ETH",
                           explorerUrl |-> "https://basescan.org",
                           isSupported |-> FALSE]
       [] c = 84532    -> [chainId |-> 84532, name |-> "Base Sepolia",
                           nativeCurrency |-> "ETH",
                           explorerUrl |-> "https://base-sepolia.blockscout.com",
                           isSupported |-> FALSE]]

HasDescriptor(c) == c \in DOMAIN SUPPORTED_NETWORKS

\* SUPPORTED_NETWORKS[chainIdNum] || { chainId, name: `Chain ${n}`, ... }
NetworkInfoFor(c) ==
  IF HasDescriptor(c)
    THEN SUPPORTED_NETWORKS[c]
    ELSE [chainId |-> c, name |-> "Chain " \o ToString(c),
          nativeCurrency |-> "ETH", explorerUrl |-> "#",
          isSupported |-> FALSE]

\* ------------------------------------------------------------------ state
VARIABLES
  mounted,       \* the session copies whose hook is rendered
  hasEthereum,   \* window.ethereum exists
  wAccount,      \* the account the wallet exposes to the page, or Null
  wChain,        \* the wallet's active chain
  provider,      \* [Inst -> BOOLEAN]   useWeb3: provider !== null
  signer,        \* [Inst -> Accounts \cup {Null}]  address the signer signs for
  account,       \* [Inst -> Accounts \cup {Null}]
  chainId,       \* [Inst -> None or Some(chain)]
  network,       \* [Inst -> None or Some(NetworkInfo)]
  initSigner,    \* [Inst -> "pending" | "done"]   mount effect, getSigner()
  initNet,       \* [Inst -> "pending" | "done"]   mount effect, getNetwork()
  connPc,        \* [Inst -> position inside connectWallet]
  connAccounts,  \* [Inst -> accounts[0] read by connectWallet]
  connNetwork,   \* [Inst -> networkData read by connectWallet]
  connResult,    \* [Inst -> outcome of the last connectWallet]
  disconnected,  \* [Inst -> disconnectWallet has returned and connectWallet
                 \* was not called since]
  swPc,          \* [Inst -> position inside switchNetwork]
  swTarget,      \* [Inst -> targetChainId of the last switchNetwork]
  swChainId,     \* [Inst -> the chainId state the running switchNetwork closed over]
  swRequests,    \* [Inst -> provider.send requests of the last switchNetwork]
  swResult,      \* [Inst -> outcome of the last switchNetwork]
  vaultContract, \* useVault: None or Some(contract handle)
  vaultAddress,  \* useVault: address the vault contract was built for
  isPaused,      \* useVault: last paused flag observed
  pausedFetches, \* useVault: fetchPausedState runs in flight
  loading,       \* useVault: loading flag
  depPc,         \* position inside deposit
  depToken,      \* tokenAddress of the last deposit
  depAmount,     \* amount of the last deposit
  depClosure,    \* signer, vaultContract, vaultAddress and account the last
                 \* deposit closed over
  depCalls,      \* contract write calls made by the last deposit
  depResult,     \* outcome of the last deposit
  wdPc,          \* position inside withdraw
  wdCalls,       \* contract write calls made by the last withdraw
  wdResult,      \* outcome of the last withdraw
  xfPc,          \* useERC20Transfer: position inside transfer / transferETH
  xfCalls,       \* write calls made by the last transfer / transferETH
  xfResult,      \* outcome of the last transfer / transferETH
  xfLoading,     \* useERC20Transfer: loading
  xfError,       \* useERC20Transfer: error (Null or the message)
  xfSuccess,     \* useERC20Transfer: success (Null or the message)
  tokenAddress,  \* the tokenAddress argument of the row's useERC20Balance
  tokenInfo,     \* useERC20: None or Some(TokenInfo)
  tokenInfoFrom, \* None or Some(chain): the chain whose token contract
                 \* answered the reads tokenInfo was built from
  regLoading,    \* useERC20: loading
  regError,      \* useERC20: error
  regFetches,    \* useERC20: the fetchTokenInfo runs in flight, in the order
                 \* started
  balanceRaw,    \* useERC20Balance: balanceRaw
  balLoading,    \* useERC20Balance: loading
  balError,      \* useERC20Balance: error
  balFetches,    \* useERC20Balance: the fetchBalance runs in the order
                 \* started: those in flight, and those answered while an
                 \* older run for the same token and account is in flight
  trSub,         \* the Transfer subscription the last effect run has to clean up
  subs,          \* Transfer listeners registered on token contracts
  ledger,        \* the chain: [token -> [holder -> balance]]
  dispRaw,       \* useERC20Balance as last rendered: balanceRaw, its decimal
                 \* digits
  dispInfo,      \* tokenInfo of that render: None or Some([decimals |-> d])
  dispOut,       \* balanceDisplay of that render, None before any
  dispDecimals,  \* decimals of the value useERC20Balance returned last
  qryPc,         \* useVault: "idle", or the balance query that is awaiting
  qryKind,       \* the balance query called last
  qryTokens,     \* token addresses of the last getUserBalance / getAllBalances
  qryAccount,    \* the account that call closed over
  qryAnswers,    \* which of its vault reads succeeded, once they answered
  qryResult,     \* how the call ended: None while it runs, else what it
                 \* returned or that it threw
  appAccount,    \* App: account
  appLoading,    \* App: loading
  appError,      \* App: error (Null or the message)
  appTxHash,     \* App: txHash
  appRuns,       \* App: the runs of handleTransfer, in the order started
  appFetches,    \* App: runs of fetchContractData in flight
  nOps           \* calls made by the page and notifications sent by the
                 \* wallet on its own so far

sessionVars == <<provider, signer, account, chainId, network>>
walletVars == <<mounted, hasEthereum, wAccount, wChain>>
initVars == <<initSigner, initNet>>
connVars == <<connPc, connAccounts, connNetwork, connResult, disconnected>>
switchVars == <<swPc, swTarget, swChainId, swRequests, swResult>>
vaultHookVars == <<vaultContract, vaultAddress, pausedFetches>>
depositVars == <<depPc, depToken, depAmount, depClosure, depCalls, depResult>>
withdrawVars == <<wdPc, wdCalls, wdResult>>
transferVars == <<xfPc, xfCalls, xfResult, xfLoading, xfError, xfSuccess>>
registryVars == <<tokenInfo, tokenInfoFrom, regLoading, regError, regFetches>>
trackerVars == <<balanceRaw, balLoading, balError, balFetches, trSub, subs>>
chainVars == <<ledger>>
displayVars == <<dispRaw, dispInfo, dispOut, dispDecimals>>
appVars == <<appAccount, appLoading, appError, appTxHash, appRuns, appFetches>>
queryVars == <<qryPc, qryKind, qryTokens, qryAccount, qryAnswers, qryResult>>

vars == <<mounted, hasEthereum, wAccount, wChain, provider, signer, account, chainId,
          network, initSigner, initNet, connPc, connAccounts, connNetwork,
          connResult, disconnected, swPc, swTarget, swChainId, swRequests, swResult,
          vaultContract, vaultAddress, isPaused, pausedFetches, loading,
          depPc, depToken, depAmount, depClosure, depCalls, depResult,
          wdPc, wdCalls, wdResult,
          xfPc, xfCalls, xfResult, xfLoading, xfError, xfSuccess,
          tokenAddress, tokenInfo, tokenInfoFrom, regLoading, regError,
          regFetches,
          balanceRaw, balLoading, balError, balFetches, trSub, subs,
          ledger, dispRaw, dispInfo, dispOut, dispDecimals,
          qryPc, qryKind, qryTokens, qryAccount, qryAnswers, qryResult,
          appAccount, appLoading, appError, appTxHash, appRuns, appFetches,
          nOps>>

budgetVars == <<nOps>>

\* what a step of the session, the vault, the transfer or the token hooks
\* leaves alone
OtherHooksIdle == UNCHANGED <<displayVars, queryVars, appVars>>
Call == nOps < MaxOps /\ nOps' = nOps + 1
Event == nOps < MaxOps /\ nOps' = nOps + 1

\* ------------------------------------------------- tokens and the chain
Tokens == {"0xUSDC", "0xDAI"}

\* what name(), symbol() and decimals() of the token contracts answer
TokenMeta(t) ==
  IF t = "0xUSDC" THEN [name |-> "USD Coin", symbol |-> "USDC", decimals |-> 6]
                  ELSE [name |-> "Dai Stablecoin", symbol |-> "DAI",
                        decimals |-> 18]

\* String.prototype.toLowerCase on the addresses that occur
toLowerCase(str) ==
  CASE str = "0xAAA" -> "0xaaa"
    [] str = "0xBBB" -> "0xbbb"
    [] str = "0xCCC" -> "0xccc"
    [] str = "0xUSDC" -> "0xusdc"
    [] str = "0xDAI" -> "0xdai"
    [] OTHER         -> str

\* the holders of the token ledgers; 0xccc is an account the wallet does not
\* hold.
Holders == {"0xaaa", "0xbbb", "0xccc"}

\* the Transfer events that occur, <<token, from, to>>; an event carries an
\* address in either spelling
TransferEvents == {<<"0xUSDC", "0xAAA", "0xCCC">>, <<"0xUSDC", "0xCCC", "0xaaa">>,
                   <<"0xUSDC", "0xBBB", "0xCCC">>, <<"0xDAI", "0xAAA", "0xCCC">>}

InitialLedger ==
  [t \in Tokens |->
     [h \in Holders |->
        CASE h = "0xaaa" -> IF t = "0xUSDC" THEN 2 ELSE 1
          [] h = "0xbbb" -> IF t = "0xUSDC" THEN 1 ELSE 0
          [] OTHER       -> 1]]

\* tokenContract.balanceOf(account) answered from the ledger l
balanceOf(l, t, o) == l[t][toLowerCase(o)]

\* the token a TokenBalanceRow is first rendered for
RowToken == "0xUSDC"

\* --------------------------------------------------------------- useWeb3
\* State after the first commit: both mount effects of every rendered copy
\* (M) have run.
\* With window.ethereum present the provider is set, the listeners are
\* registered and the two initial lookups are in flight.
\* For a rendered TokenBalanceRow the effect of useERC20 has started
\* fetchTokenInfo and the effect of useERC20Balance, finding no account, has
\* returned early.
\* a run of fetchTokenInfo: the three reads of Promise.all
TokenInfoFetch(t) == [token |-> t]

\* a run of fetchBalance: value is what balanceOf answers
BalanceFetch(t, o, v) ==
  [token |-> t, owner |-> o, value |-> v, status |-> "pending"]

\* the state a function of useVault closes over when it is called
Closure(sg, vc, va, acct) ==
  [signer |-> sg, vaultContract |-> vc, vaultAddress |-> va, account |-> acct]
NoClosure == Closure(Null, None, "", Null)

InitOf(M) ==
  /\ mounted = M
  /\ hasEthereum \in BOOLEAN
  /\ wAccount \in InitialAccounts
  /\ wChain \in InitialChains
  /\ provider = [i \in Inst |-> hasEthereum /\ i \in M]
  /\ signer = [i \in Inst |-> Null]
  /\ account = [i \in Inst |-> Null]
  /\ chainId = [i \in Inst |-> None]
  /\ network = [i \in Inst |-> None]
  /\ initSigner = [i \in Inst |->
                     IF hasEthereum /\ i \in M THEN "pending" ELSE "done"]
  /\ initNet = [i \in Inst |->
                  IF hasEthereum /\ i \in M THEN "pending" ELSE "done"]
  /\ connPc = [i \in Inst |-> "idle"]
  /\ connAccounts = [i \in Inst |-> Null]
  /\ connNetwork = [i \in Inst |-> None]
  /\ connResult = [i \in Inst |-> "none"]
  /\ disconnected = [i \in Inst |-> FALSE]
  /\ swPc = [i \in Inst |-> "idle"]
  /\ swTarget = [i \in Inst |-> None]
  /\ swChainId = [i \in Inst |-> None]
  /\ swRequests = [i \in Inst |-> <<>>]
  /\ swResult = [i \in Inst |-> "none"]
  /\ vaultContract = None
  /\ vaultAddress = ""
  /\ isPaused = FALSE
  /\ pausedFetches = 0
  /\ loading = FALSE
  /\ depPc = "idle"
  /\ depToken = ""
  /\ depAmount = ""
  /\ depClosure = NoClosure
  /\ depCalls = <<>>
  /\ depResult = "none"
  /\ wdPc = "idle"
  /\ wdCalls = <<>>
  /\ wdResult = "none"
  /\ xfPc = "idle"
  /\ xfCalls = <<>>
  /\ xfResult = "none"
  /\ xfLoading = FALSE
  /\ xfError = Null
  /\ xfSuccess = Null
  /\ tokenAddress = IF RowSess \in M THEN RowToken ELSE Null
  /\ tokenInfo = None
  /\ tokenInfoFrom = None
  /\ regLoading = (hasEthereum /\ RowSess \in M)
  /\ regError = Null
  /\ regFetches = IF hasEthereum /\ RowSess \in M
                    THEN <<TokenInfoFetch(RowToken)>> ELSE <<>>
  /\ balanceRaw = 0
  /\ balLoading = FALSE
  /\ balError = Null
  /\ balFetches = <<>>
  /\ trSub = None
  /\ subs = <<>>
  /\ ledger = InitialLedger
  /\ dispRaw = <<0>>
  /\ dispInfo = None
  /\ dispOut = None
  /\ dispDecimals = 18
  /\ qryPc = "idle"
  /\ qryKind = "none"
  /\ qryTokens = <<>>
  /\ qryAccount = Null
  /\ qryAnswers = <<>>
  /\ qryResult = None
  /\ appAccount = Null
  /\ appLoading = FALSE
  /\ appError = Null
  /\ appTxHash = Null
  /\ appRuns = <<>>
  /\ appFetches = 0
  /\ nOps = 0

\* VaultDashboard renders its hooks
Init == InitOf(Dashboard)

\* useVault rendered on its own
InitVault == InitOf({VaultSess})

\* handleAccountsChanged, run by every registered listener:
\* setAccount(accounts[0] || null)
handleAccountsChanged(acct, a) ==
  [i \in Inst |-> IF hasEthereum /\ i \in mounted THEN a ELSE acct[i]]

\* setNetwork forgotten: the network state keeps its old value
setNetworkOfStale(net, S, c) == net

\* handleChainChanged / updateNetworkInfo: setChainId and setNetwork
setChainIdOf(cid, S, c) == [i \in Inst |-> IF i \in S THEN Some(c) ELSE cid[i]]
setNetworkOf(net, S, c) ==
  [i \in Inst |-> IF i \in S THEN Some(NetworkInfoFor(c)) ELSE net[i]]

Listeners == IF hasEthereum THEN mounted ELSE {}

\* ---------------------------------------------- useVault, the two effects
NETWORK_CONFIG ==
  [c \in {11155111, 1} |->
     IF c = 11155111
       THEN [vaultAddress |-> "0x...",
             supportedTokens |-> {"USDC", "DAI", "USDT", "WETH"}]
       ELSE [vaultAddress |-> "0x...",
             supportedTokens |-> {"USDT", "USDC", "DAI"}]]

\* NETWORK_CONFIG[chainId] || NETWORK_CONFIG[11155111]
getContractAddresses(c) ==
  IF c \in DOMAIN NETWORK_CONFIG THEN NETWORK_CONFIG[c]
                                   ELSE NETWORK_CONFIG[11155111]

\* new Contract(address, abi, runner); forChain is the chainId the effect ran
\* with, it tells two handles of the same address apart
Contract(address, runner, c) ==
  [address |-> address, runner |-> runner, forChain |-> c]

\* new Contract(addresses.vaultAddress, VAULT_ABI, provider)
newVaultContract(c) ==
  Contract(getContractAddresses(c).vaultAddress, "provider", c)

\* The effects of useVault, run after a commit that changed the chainId of its
\* session copy: [provider, chainId] rebuilds the contract handle unless
\* provider or chainId is missing, [vaultContract] then starts
\* fetchPausedState.  Written as the last conjunct of each step that sets
\* chainId.
VaultEffects ==
  IF /\ chainId'[VaultSess] # chainId[VaultSess]
     /\ provider[VaultSess]
     /\ chainId'[VaultSess] # None
    THEN /\ vaultAddress' = getContractAddresses(chainId'[VaultSess][1]).vaultAddress
         /\ vaultContract' = Some(newVaultContract(chainId'[VaultSess][1]))
         /\ pausedFetches' = pausedFetches + 1
    ELSE UNCHANGED vaultHookVars

\* ------------------------------- useERC20 and useERC20Balance, the effects
\* useERC20, effect on [provider, tokenAddress]: start fetchTokenInfo
RegistryEffect(prov, tok) ==
  IF prov /\ tok # Null
    THEN /\ regFetches' = Append(regFetches, TokenInfoFetch(tok))
         /\ regLoading' = TRUE
         /\ regError' = Null
         /\ UNCHANGED <<tokenInfo, tokenInfoFrom>>
    ELSE UNCHANGED registryVars

\* the sequence ss without the first occurrence of x
RECURSIVE RemoveOne(_, _)
RemoveOne(ss, x) ==
  IF ss = <<>> THEN <<>>
  ELSE IF Head(ss) = x THEN Tail(ss)
  ELSE <<Head(ss)>> \o RemoveOne(Tail(ss), x)

\* an effect whose cleanup function is dropped: the listener stays registered
effectCleanupLeaks(ss, sub) == ss

\* the cleanup function the effect of useERC20Balance returned:
\* tokenContract.off("Transfer", handleTransfer)
effectCleanup(ss, sub) == IF sub = None THEN ss ELSE RemoveOne(ss, sub[1])

Subscription(tok, acct) == [token |-> tok, owner |-> acct]

\* useERC20Balance, effect on [provider, tokenAddress, account,
\* tokenInfo?.decimals]: the cleanup of the previous run, then either the
\* early return (setBalanceRaw(0n), setError(null)) or fetchBalance() and
\* tokenContract.on("Transfer", handleTransfer)
BalanceEffect(prov, tok, acct) ==
  IF ~prov \/ tok = Null \/ acct = Null
    THEN /\ balanceRaw' = 0
         /\ balError' = Null
         /\ trSub' = None
         /\ subs' = effectCleanup(subs, trSub)
         /\ UNCHANGED <<balLoading, balFetches>>
    ELSE /\ Len(balFetches) < MaxInFlight
         /\ balFetches' = Append(balFetches,
                             BalanceFetch(tok, acct, balanceOf(ledger, tok, acct)))
         /\ balLoading' = TRUE
         /\ balError' = Null
         /\ trSub' = Some(Subscription(tok, acct))
         /\ subs' = Append(effectCleanup(subs, trSub), Subscription(tok, acct))
         /\ UNCHANGED balanceRaw

\* The effect of the row's useERC20Balance after a commit that changed the
\* account of the session copy the row reads.  Written as the last conjunct of
\* each step that sets account.
TrackerEffects ==
  IF RowSess \in mounted /\ account'[RowSess] # account[RowSess]
    THEN BalanceEffect(provider[RowSess], tokenAddress, account'[RowSess])
    ELSE UNCHANGED trackerVars

\* The wallet changes the exposed account (user switches account, locks the
\* wallet or revokes the site) and emits accountsChanged.
AccountsChanged(a) ==
  /\ hasEthereum
  /\ a # wAccount
  /\ wAccount' = a
  /\ account' = handleAccountsChanged(account, a)
  /\ UNCHANGED <<mounted, hasEthereum, wChain, provider, signer, chainId, network>>
  /\ UNCHANGED initVars
  /\ UNCHANGED connVars
  /\ UNCHANGED switchVars
  /\ UNCHANGED <<isPaused, loading>>
  /\ UNCHANGED depositVars
  /\ Event
  /\ UNCHANGED vaultHookVars
  /\ UNCHANGED <<tokenAddress, ledger>>
  /\ UNCHANGED withdrawVars
  /\ UNCHANGED transferVars
  /\ OtherHooksIdle
  /\ UNCHANGED registryVars
  /\ TrackerEffects

\* The wallet changes its active chain and emits chainChanged.
ChainChanged(c) ==
  /\ hasEthereum
  /\ c # wChain
  /\ wChain' = c
  /\ chainId' = setChainIdOf(chainId, Listeners, c)
  /\ network' = setNetworkOf(network, Listeners, c)
  /\ UNCHANGED <<mounted, hasEthereum, wAccount, provider, signer, account>>
  /\ UNCHANGED initVars
  /\ UNCHANGED connVars
  /\ UNCHANGED switchVars
  /\ UNCHANGED <<isPaused, loading>>
  /\ UNCHANGED depositVars
  /\ Event
  /\ VaultEffects
  /\ UNCHANGED <<tokenAddress, ledger>>
  /\ UNCHANGED withdrawVars
  /\ UNCHANGED transferVars
  /\ OtherHooksIdle
  /\ UNCHANGED registryVars
  /\ TrackerEffects

\* Mount effect: ethereumProvider.getSigner().then(s => s.getAddress()
\* .then(setAccount).catch(() => {})).  getSigner() resolves with the signer
\* of the exposed account; with no exposed account it asks the wallet for
\* access, which the user grants (ok, a) or refuses.
InitSignerResolve(i, ok, a) ==
  /\ initSigner[i] = "pending"
  /\ initSigner' = [initSigner EXCEPT ![i] = "done"]
  /\ IF ok
       THEN /\ IF wAccount = Null THEN a \in Accounts ELSE a = wAccount
            /\ wAccount' = a
            /\ account' = [(IF wAccount = Null
                              THEN handleAccountsChanged(account, a)
                              ELSE account) EXCEPT ![i] = a]
       ELSE /\ a = Null
            /\ UNCHANGED <<wAccount, account>>
  /\ UNCHANGED <<mounted, hasEthereum, wChain, provider, signer, chainId, network,
                 initNet>>
  /\ UNCHANGED connVars
  /\ UNCHANGED switchVars
  /\ UNCHANGED <<isPaused, loading>>
  /\ UNCHANGED depositVars
  /\ UNCHANGED budgetVars
  /\ UNCHANGED vaultHookVars
  /\ UNCHANGED <<tokenAddress, ledger>>
  /\ UNCHANGED withdrawVars
  /\ UNCHANGED transferVars
  /\ OtherHooksIdle
  /\ UNCHANGED registryVars
  /\ TrackerEffects

\* Mount effect: ethereumProvider.getNetwork().then(updateNetworkInfo).
\* The lookup answers with the chain the wallet is on and the continuation
\* runs in the same task as the answer; a failed lookup has no handler.
InitNetworkResolve(i, ok) ==
  /\ initNet[i] = "pending"
  /\ initNet' = [initNet EXCEPT ![i] = "done"]
  /\ IF ok
       THEN /\ chainId' = setChainIdOf(chainId, {i}, wChain)
            /\ network' = setNetworkOf(network, {i}, wChain)
       ELSE UNCHANGED <<chainId, network>>
  /\ UNCHANGED walletVars
  /\ UNCHANGED <<provider, signer, account, initSigner>>
  /\ UNCHANGED connVars
  /\ UNCHANGED switchVars
  /\ UNCHANGED <<isPaused, loading>>
  /\ UNCHANGED depositVars
  /\ UNCHANGED budgetVars
  /\ VaultEffects
  /\ UNCHANGED <<tokenAddress, ledger>>
  /\ UNCHANGED withdrawVars
  /\ UNCHANGED transferVars
  /\ OtherHooksIdle
  /\ UNCHANGED registryVars
  /\ TrackerEffects

\* connectWallet, up to its first await.
connectWallet(i) ==
  /\ connPc[i] = "idle"
  /\ IF ~provider[i]
       THEN /\ connResult' = [connResult EXCEPT ![i] = "NoProviderDetected"]
            /\ UNCHANGED connPc
       ELSE /\ connResult' = [connResult EXCEPT ![i] = "none"]
            /\ connPc' = [connPc EXCEPT ![i] = "requestAccounts"]
  /\ disconnected' = [disconnected EXCEPT ![i] = FALSE]
  /\ UNCHANGED <<connAccounts, connNetwork>>
  /\ UNCHANGED walletVars
  /\ UNCHANGED sessionVars
  /\ UNCHANGED initVars
  /\ Call
  /\ UNCHANGED switchVars
  /\ UNCHANGED <<isPaused, loading>>
  /\ UNCHANGED depositVars
  /\ UNCHANGED vaultHookVars
  /\ UNCHANGED <<tokenAddress, ledger>>
  /\ UNCHANGED withdrawVars
  /\ UNCHANGED transferVars
  /\ OtherHooksIdle
  /\ UNCHANGED registryVars
  /\ TrackerEffects

\* Failure of any of the three awaits: catch, log, rethrow.
ConnectFail(i, kind) ==
  /\ connPc' = [connPc EXCEPT ![i] = "idle"]
  /\ connAccounts' = [connAccounts EXCEPT ![i] = Null]
  /\ connNetwork' = [connNetwork EXCEPT ![i] = None]
  /\ connResult' = [connResult EXCEPT ![i] = kind]

\* const accounts = await provider.send("eth_requestAccounts", [])
\* res: "ok" (accounts returned; access granted to a if none was exposed),
\* "UserRejected" (code 4001) or "ConnectionError" (anything else).
ConnectAccounts(i, res, a) ==
  /\ connPc[i] = "requestAccounts"
  /\ IF res = "ok"
       THEN /\ IF wAccount = Null THEN a \in Accounts ELSE a = wAccount
            /\ wAccount' = a
            /\ account' = IF wAccount = Null
                            THEN handleAccountsChanged(account, a)
                            ELSE account
            /\ connPc' = [connPc EXCEPT ![i] = "getNetwork"]
            /\ connAccounts' = [connAccounts EXCEPT ![i] = a]
            /\ UNCHANGED <<connNetwork, connResult>>
       ELSE /\ a = Null
            /\ ConnectFail(i, res)
            /\ UNCHANGED <<wAccount, account>>
  /\ UNCHANGED <<mounted, hasEthereum, wChain, provider, signer, chainId, network>>
  /\ UNCHANGED disconnected
  /\ UNCHANGED initVars
  /\ UNCHANGED budgetVars
  /\ UNCHANGED switchVars
  /\ UNCHANGED <<isPaused, loading>>
  /\ UNCHANGED depositVars
  /\ UNCHANGED vaultHookVars
  /\ UNCHANGED <<tokenAddress, ledger>>
  /\ UNCHANGED withdrawVars
  /\ UNCHANGED transferVars
  /\ OtherHooksIdle
  /\ UNCHANGED registryVars
  /\ TrackerEffects

\* const networkData = await provider.getNetwork()
ConnectNetwork(i, ok) ==
  /\ connPc[i] = "getNetwork"
  /\ IF ok
       THEN /\ connPc' = [connPc EXCEPT ![i] = "getSigner"]
            /\ connNetwork' = [connNetwork EXCEPT ![i] = Some(wChain)]
            /\ UNCHANGED <<connAccounts, connResult>>
       ELSE ConnectFail(i, "ConnectionError")
  /\ UNCHANGED disconnected
  /\ UNCHANGED walletVars
  /\ UNCHANGED sessionVars
  /\ UNCHANGED initVars
  /\ UNCHANGED budgetVars
  /\ UNCHANGED switchVars
  /\ UNCHANGED <<isPaused, loading>>
  /\ UNCHANGED depositVars
  /\ UNCHANGED vaultHookVars
  /\ UNCHANGED <<tokenAddress, ledger>>
  /\ UNCHANGED withdrawVars
  /\ UNCHANGED transferVars
  /\ OtherHooksIdle
  /\ UNCHANGED registryVars
  /\ TrackerEffects

\* const signer = await provider.getSigner(); then setSigner(signer),
\* setAccount(accounts[0]), updateNetworkInfo(networkData).
\* getSigner() answers with the signer of the account exposed now; with no
\* exposed account it asks the wallet for access first, as in the mount effect.
ConnectSigner(i, ok, a) ==
  /\ connPc[i] = "getSigner"
  /\ IF ok
       THEN /\ IF wAccount = Null THEN a \in Accounts ELSE a = wAccount
            /\ wAccount' = a
            /\ signer' = [signer EXCEPT ![i] = a]
            /\ account' = [(IF wAccount = Null
                              THEN handleAccountsChanged(account, a)
                              ELSE account) EXCEPT ![i] = connAccounts[i]]
            /\ chainId' = setChainIdOf(chainId, {i}, connNetwork[i][1])
            /\ network' = setNetworkOf(network, {i}, connNetwork[i][1])
            /\ connPc' = [connPc EXCEPT ![i] = "idle"]
            /\ connAccounts' = [connAccounts EXCEPT ![i] = Null]
            /\ connNetwork' = [connNetwork EXCEPT ![i] = None]
            /\ connResult' = [connResult EXCEPT ![i] = "ok"]
       ELSE /\ a = Null
            /\ ConnectFail(i, "ConnectionError")
            /\ UNCHANGED <<wAccount, signer, account, chainId, network>>
  /\ UNCHANGED <<mounted, hasEthereum, wChain, provider>>
  /\ UNCHANGED disconnected
  /\ UNCHANGED initVars
  /\ UNCHANGED budgetVars
  /\ UNCHANGED switchVars
  /\ UNCHANGED <<isPaused, loading>>
  /\ UNCHANGED depositVars
  /\ VaultEffects
  /\ UNCHANGED <<tokenAddress, ledger>>
  /\ UNCHANGED withdrawVars
  /\ UNCHANGED transferVars
  /\ OtherHooksIdle
  /\ UNCHANGED registryVars
  /\ TrackerEffects

\* disconnectWallet without setSigner(null)
disconnectWalletKeepsSigner(i) ==
  /\ UNCHANGED signer
  /\ account' = [account EXCEPT ![i] = Null]
  /\ chainId' = [chainId EXCEPT ![i] = None]
  /\ network' = [network EXCEPT ![i] = None]
  /\ disconnected' = [disconnected EXCEPT ![i] = TRUE]
  /\ UNCHANGED walletVars
  /\ UNCHANGED provider
  /\ UNCHANGED initVars
  /\ UNCHANGED <<connPc, connAccounts, connNetwork, connResult>>
  /\ UNCHANGED switchVars
  /\ UNCHANGED <<isPaused, loading>>
  /\ UNCHANGED depositVars
  /\ Call
  /\ VaultEffects
  /\ UNCHANGED <<tokenAddress, ledger>>
  /\ UNCHANGED withdrawVars
  /\ UNCHANGED transferVars
  /\ OtherHooksIdle
  /\ UNCHANGED registryVars
  /\ TrackerEffects

\* disconnectWallet: the four setters, nothing else.
disconnectWallet(i) ==
  /\ signer' = [signer EXCEPT ![i] = Null]
  /\ account' = [account EXCEPT ![i] = Null]
  /\ chainId' = [chainId EXCEPT ![i] = None]
  /\ network' = [network EXCEPT ![i] = None]
  /\ disconnected' = [disconnected EXCEPT ![i] = TRUE]
  /\ UNCHANGED walletVars
  /\ UNCHANGED provider
  /\ UNCHANGED initVars
  /\ UNCHANGED <<connPc, connAccounts, connNetwork, connResult>>
  /\ UNCHANGED switchVars
  /\ UNCHANGED <<isPaused, loading>>
  /\ UNCHANGED depositVars
  /\ Call
  /\ VaultEffects
  /\ UNCHANGED <<tokenAddress, ledger>>
  /\ UNCHANGED withdrawVars
  /\ UNCHANGED transferVars
  /\ OtherHooksIdle
  /\ UNCHANGED registryVars
  /\ TrackerEffects

\* ------------------------------------------------------- switchNetwork
\* JavaScript values placed in a request parameter
JsString(str) == [type |-> "string", str |-> str, num |-> 0]
JsNumber(n) == [type |-> "number", str |-> "", num |-> n]
JsNull == [type |-> "null", str |-> "", num |-> 0]

HexDigit == <<"0", "1", "2", "3", "4", "5", "6", "7",
              "8", "9", "a", "b", "c", "d", "e", "f">>

\* Number.prototype.toString(16)
RECURSIVE toString16(_)
toString16(n) ==
  IF n < 16 THEN HexDigit[n + 1]
            ELSE toString16(n \div 16) \o HexDigit[(n % 16) + 1]

\* `0x${targetChainId.toString(16)}`
hexChainId(n) == "0x" \o toString16(n)

\* error code of "chain has not been added to the wallet"
UnrecognizedChain == 4902
\* codes a provider error can carry: user rejection, unrecognized chain,
\* internal error
ProviderErrorCodes == {4001, 4902, -32603}
SwitchAnswers ==
  {[ok |-> TRUE, code |-> 0]} \cup
  {[ok |-> FALSE, code |-> c] : c \in ProviderErrorCodes}

SwitchRequest(target) ==
  [method |-> "wallet_switchEthereumChain",
   chainId |-> JsString(hexChainId(target)),
   chainName |-> "", rpcUrls |-> <<>>, blockExplorerUrls |-> <<>>,
   answer |-> "pending"]

getRpcUrls(c) ==
  CASE c = 1        -> <<"https://mainnet.infura.io/v3/YOUR_INFURA_KEY">>
    [] c = 11155111 -> <<"https://sepolia.infura.io/v3/YOUR_INFURA_KEY">>
    [] c = 5        -> <<"https://goerli.infura.io/v3/YOUR_INFURA_KEY">>
    [] c = 8453     -> <<"https://mainnet.base.org">>
    [] c = 84532    -> <<"https://sepolia.base.org">>
    [] OTHER        -> <<"https://ethereum.publicnode.com">>

\* the parameter object of wallet_addEthereumChain: chainId is the chainId
\* state of the session (a number or null), the rest comes from the registry
AddRequest(target, stateChainId) ==
  [method |-> "wallet_addEthereumChain",
   chainId |-> IF stateChainId = None THEN JsNull
                                      ELSE JsNumber(stateChainId[1]),
   chainName |-> SUPPORTED_NETWORKS[target].name,
   rpcUrls |-> getRpcUrls(target),
   blockExplorerUrls |-> <<SUPPORTED_NETWORKS[target].explorerUrl>>,
   answer |-> "pending"]

Answered(reqs, ans) == [reqs EXCEPT ![Len(reqs)].answer = ans]

\* switchNetwork(targetChainId), up to its first await
switchNetwork(i, target) ==
  /\ swPc[i] = "idle"
  /\ swTarget' = [swTarget EXCEPT ![i] = Some(target)]
  /\ IF ~provider[i]
       THEN /\ swResult' = [swResult EXCEPT ![i] = "WalletNotConnected"]
            /\ swRequests' = [swRequests EXCEPT ![i] = <<>>]
            /\ UNCHANGED <<swPc, swChainId>>
       ELSE /\ swResult' = [swResult EXCEPT ![i] = "none"]
            /\ swRequests' = [swRequests EXCEPT ![i] = <<SwitchRequest(target)>>]
            /\ swPc' = [swPc EXCEPT ![i] = "switch"]
            /\ swChainId' = [swChainId EXCEPT ![i] = chainId[i]]
  /\ UNCHANGED walletVars
  /\ UNCHANGED sessionVars
  /\ UNCHANGED initVars
  /\ UNCHANGED connVars
  /\ Call
  /\ UNCHANGED <<isPaused, loading>>
  /\ UNCHANGED depositVars
  /\ UNCHANGED vaultHookVars
  /\ UNCHANGED <<tokenAddress, ledger>>
  /\ UNCHANGED withdrawVars
  /\ UNCHANGED transferVars
  /\ OtherHooksIdle
  /\ UNCHANGED registryVars
  /\ TrackerEffects

\* catch block without the registry lookup: an unrecognized chain is always
\* registered
catchSwitchErrorNoLookup(target, stateChainId, reqs, code) ==
  IF code = UnrecognizedChain
    THEN [pc |-> "add",
          reqs |-> Append(reqs, [SwitchRequest(target) EXCEPT
                                   !.method = "wallet_addEthereumChain"]),
          result |-> "none"]
    ELSE [pc |-> "idle", reqs |-> reqs, result |-> "NetworkSwitchFailed"]

\* catch block without the test of the error code: every switch error is
\* taken for an unrecognized chain
catchSwitchErrorAnyCode(target, stateChainId, reqs, code) ==
  IF ~HasDescriptor(target)
    THEN [pc |-> "idle", reqs |-> reqs, result |-> "UnsupportedNetwork"]
    ELSE [pc |-> "add",
          reqs |-> Append(reqs, AddRequest(target, stateChainId)),
          result |-> "none"]

\* what the catch block does with switchError: the next position, the
\* requests made so far and the outcome
catchSwitchError(target, stateChainId, reqs, code) ==
  IF code = UnrecognizedChain
    THEN IF ~HasDescriptor(target)
           THEN [pc |-> "idle", reqs |-> reqs, result |-> "UnsupportedNetwork"]
           ELSE [pc |-> "add",
                 reqs |-> Append(reqs, AddRequest(target, stateChainId)),
                 result |-> "none"]
    ELSE [pc |-> "idle", reqs |-> reqs, result |-> "NetworkSwitchFailed"]

\* The wallet answers wallet_switchEthereumChain: it switches (and tells every
\* listener with chainChanged), or it refuses with an error code.
SwitchAnswer(i, ans) ==
  /\ swPc[i] = "switch"
  /\ IF ans.ok
       THEN /\ wChain' = swTarget[i][1]
            /\ chainId' = IF wChain = swTarget[i][1] THEN chainId
                          ELSE setChainIdOf(chainId, Listeners, swTarget[i][1])
            /\ network' = IF wChain = swTarget[i][1] THEN network
                          ELSE setNetworkOf(network, Listeners, swTarget[i][1])
            /\ swPc' = [swPc EXCEPT ![i] = "idle"]
            /\ swRequests' = [swRequests EXCEPT ![i] = Answered(@, "ok")]
            /\ swResult' = [swResult EXCEPT ![i] = "ok"]
       ELSE /\ LET r == catchSwitchError(swTarget[i][1], swChainId[i],
                          Answered(swRequests[i], ToString(ans.code)),
                          ans.code)
               IN /\ swPc' = [swPc EXCEPT ![i] = r.pc]
                  /\ swRequests' = [swRequests EXCEPT ![i] = r.reqs]
                  /\ swResult' = [swResult EXCEPT ![i] = r.result]
            /\ UNCHANGED <<wChain, chainId, network>>
  /\ UNCHANGED <<mounted, hasEthereum, wAccount, provider, signer, account, swTarget,
                 swChainId>>
  /\ UNCHANGED initVars
  /\ UNCHANGED connVars
  /\ UNCHANGED budgetVars
  /\ UNCHANGED <<isPaused, loading>>
  /\ UNCHANGED depositVars
  /\ VaultEffects
  /\ UNCHANGED <<tokenAddress, ledger>>
  /\ UNCHANGED withdrawVars
  /\ UNCHANGED transferVars
  /\ OtherHooksIdle
  /\ UNCHANGED registryVars
  /\ TrackerEffects

\* The wallet answers wallet_addEthereumChain.  The await sits inside the
\* catch block: a refusal is thrown to the caller as it is, an acceptance
\* ends switchNetwork.  A wallet that accepts may move to the added chain on
\* its own (switched) and then tells every listener.
AddAnswer(i, ok, switched) ==
  /\ swPc[i] = "add"
  /\ switched => ok /\ wChain # swTarget[i][1]
  /\ swPc' = [swPc EXCEPT ![i] = "idle"]
  /\ swRequests' = [swRequests EXCEPT ![i] =
                      Answered(@, IF ok THEN "ok" ELSE "error")]
  /\ swResult' = [swResult EXCEPT ![i] =
                    IF ok THEN "ok" ELSE "NetworkSwitchFailed"]
  /\ IF switched
       THEN /\ wChain' = swTarget[i][1]
            /\ chainId' = setChainIdOf(chainId, Listeners, swTarget[i][1])
            /\ network' = setNetworkOf(network, Listeners, swTarget[i][1])
       ELSE UNCHANGED <<wChain, chainId, network>>
  /\ UNCHANGED <<swTarget, swChainId>>
  /\ UNCHANGED <<mounted, hasEthereum, wAccount, provider, signer, account>>
  /\ UNCHANGED initVars
  /\ UNCHANGED connVars
  /\ UNCHANGED budgetVars
  /\ UNCHANGED <<isPaused, loading>>
  /\ UNCHANGED depositVars
  /\ VaultEffects
  /\ UNCHANGED <<tokenAddress, ledger>>
  /\ UNCHANGED withdrawVars
  /\ UNCHANGED transferVars
  /\ OtherHooksIdle
  /\ UNCHANGED registryVars
  /\ TrackerEffects

\* ------------------------------------------------------ useVault.deposit
Amounts == {"10", "abc"}

\* parseUnits(amount, decimals): the raw integer is units * 10^scale; a string
\* that is not a decimal number makes parseUnits throw (None)
parseUnits(amount, decimals) ==
  CASE amount = "10" -> Some([units |-> 10, scale |-> decimals])
    [] amount = "1"  -> Some([units |-> 1, scale |-> decimals])
    [] OTHER         -> None

\* a write call made through a contract handle
WriteCall(fn, runner, from, to, token, spender, amountRaw, status) ==
  [fn |-> fn, runner |-> runner, from |-> from, to |-> to, token |-> token,
   spender |-> spender, amount |-> amountRaw, status |-> status]

\* A contract method that changes state needs a runner that can send
\* transactions: through a handle bound to the provider the call throws
\* UNSUPPORTED_OPERATION before anything is sent.
sendStatus(runner) == IF runner = "signer" THEN "requested" ELSE "unsupported"

SetLast(calls, st) == [calls EXCEPT ![Len(calls)].status = st]

\* await fetchPausedState(): paused() answers, or the call fails and is logged
PausedAnswer(ok, paused) ==
  /\ pausedFetches > 0
  /\ pausedFetches' = pausedFetches - 1
  /\ isPaused' = IF ok THEN paused ELSE isPaused
  /\ UNCHANGED <<vaultContract, vaultAddress, loading>>
  /\ UNCHANGED walletVars
  /\ UNCHANGED sessionVars
  /\ UNCHANGED initVars
  /\ UNCHANGED connVars
  /\ UNCHANGED switchVars
  /\ UNCHANGED depositVars
  /\ UNCHANGED budgetVars
  /\ UNCHANGED <<tokenAddress, ledger>>
  /\ UNCHANGED withdrawVars
  /\ UNCHANGED transferVars
  /\ OtherHooksIdle
  /\ UNCHANGED registryVars
  /\ TrackerEffects

\* the catch/finally of deposit: log, rethrow, setLoading(false)
DepositThrow(calls, kind) ==
  /\ depPc' = "idle"
  /\ depCalls' = calls
  /\ depResult' = kind
  /\ loading' = FALSE

\* deposit(tokenAddress, amount), up to its first await
deposit(token, amount) ==
  /\ depPc = "idle"
  /\ depToken' = token
  /\ depAmount' = amount
  /\ depClosure' = Closure(signer[VaultSess], vaultContract, vaultAddress,
                           account[VaultSess])
  /\ IF signer[VaultSess] = Null \/ vaultContract = None
        \/ account[VaultSess] = Null
       THEN /\ depResult' = "WalletNotConnected"
            /\ depCalls' = <<>>
            /\ UNCHANGED <<depPc, loading>>
       ELSE IF isPaused
         THEN /\ depResult' = "VaultPaused"
              /\ depCalls' = <<>>
              /\ UNCHANGED <<depPc, loading>>
         ELSE IF parseUnits(amount, 18) = None
           THEN DepositThrow(<<>>, "ProviderError")
           ELSE /\ depPc' = "approveSend"
                /\ depCalls' = <<WriteCall("approve", "signer",
                                   signer[VaultSess], token, token,
                                   vaultAddress, parseUnits(amount, 18)[1],
                                   sendStatus("signer"))>>
                /\ depResult' = "none"
                /\ loading' = TRUE
  /\ UNCHANGED <<isPaused>>
  /\ UNCHANGED vaultHookVars
  /\ UNCHANGED walletVars
  /\ UNCHANGED sessionVars
  /\ UNCHANGED initVars
  /\ UNCHANGED connVars
  /\ UNCHANGED switchVars
  /\ Call
  /\ UNCHANGED <<tokenAddress, ledger>>
  /\ UNCHANGED withdrawVars
  /\ UNCHANGED transferVars
  /\ OtherHooksIdle
  /\ UNCHANGED registryVars
  /\ TrackerEffects

\* the vault's deposit call of phase (b), made through the vaultContract the
\* running deposit closed over; only a handle bound to a signer has a sender
vaultDepositCall(cl, token, calls) ==
  LET vc == cl.vaultContract[1] IN
  WriteCall("deposit", vc.runner,
            IF vc.runner = "signer" THEN cl.signer ELSE Null,
            vc.address, token, "", calls[1].amount, sendStatus(vc.runner))

\* what deposit does once a transaction it awaited is included
afterIncluded(calls) ==
  IF calls[Len(calls)].fn = "approve"
    THEN LET c == vaultDepositCall(depClosure, depToken, calls) IN
         IF c.status = "requested"
           THEN [pc |-> "depositSend", calls |-> Append(calls, c),
                 result |-> "none"]
           ELSE [pc |-> "idle", calls |-> Append(calls, c),
                 result |-> "ProviderError"]
    ELSE [pc |-> "idle", calls |-> calls, result |-> "confirmed"]

\* a failed approve is swallowed and deposit goes on to phase (b)
afterFailureGoesOn(calls, kind) ==
  IF calls[Len(calls)].fn = "approve"
    THEN afterIncluded(calls)
    ELSE [pc |-> "idle", calls |-> calls, result |-> kind]

\* a failed call is made once more before the error is given up on
afterFailureResubmits(calls, kind) ==
  IF Len(calls) < 2
    THEN [pc |-> IF calls[Len(calls)].fn = "approve" THEN "approveSend"
                                                     ELSE "depositSend",
          calls |-> Append(calls, [calls[Len(calls)] EXCEPT
                                     !.status = "requested"]),
          result |-> "none"]
    ELSE [pc |-> "idle", calls |-> calls, result |-> kind]

\* what deposit does when the call it awaits fails: the error reaches the
\* catch block, nothing else is called
afterFailure(calls, kind) == [pc |-> "idle", calls |-> calls, result |-> kind]

\* The wallet answers a call that asked for a signature: the transaction is
\* sent, the user declines, or the request fails.
DepositSent(res) ==
  /\ depPc \in {"approveSend", "depositSend"}
  /\ IF res = "pending"
       THEN /\ depPc' = IF depPc = "approveSend" THEN "approveWait"
                                                 ELSE "depositWait"
            /\ depCalls' = SetLast(depCalls, "pending")
            /\ UNCHANGED <<depResult, loading>>
       ELSE LET r == afterFailure(SetLast(depCalls, res),
                       IF res = "rejected" THEN "TransactionRejected"
                                           ELSE "ProviderError")
            IN IF r.pc = "idle"
                 THEN DepositThrow(r.calls, r.result)
                 ELSE /\ depPc' = r.pc
                      /\ depCalls' = r.calls
                      /\ UNCHANGED <<depResult, loading>>
  /\ UNCHANGED <<depToken, depAmount, depClosure, isPaused>>
  /\ UNCHANGED vaultHookVars
  /\ UNCHANGED walletVars
  /\ UNCHANGED sessionVars
  /\ UNCHANGED initVars
  /\ UNCHANGED connVars
  /\ UNCHANGED switchVars
  /\ UNCHANGED budgetVars
  /\ UNCHANGED <<tokenAddress, ledger>>
  /\ UNCHANGED withdrawVars
  /\ UNCHANGED transferVars
  /\ OtherHooksIdle
  /\ UNCHANGED registryVars
  /\ TrackerEffects

\* tx.wait() answers: the transaction is included, or its execution reverted.
DepositMined(res) ==
  /\ depPc \in {"approveWait", "depositWait"}
  /\ LET r == IF res = "included"
                THEN afterIncluded(SetLast(depCalls, "included"))
                ELSE afterFailure(SetLast(depCalls, "reverted"),
                                  "TransactionReverted")
     IN IF r.pc = "idle"
          THEN /\ depPc' = "idle"
               /\ depCalls' = r.calls
               /\ depResult' = r.result
               /\ loading' = FALSE
          ELSE /\ depPc' = r.pc
               /\ depCalls' = r.calls
               /\ UNCHANGED <<depResult, loading>>
  /\ UNCHANGED <<depToken, depAmount, depClosure, isPaused>>
  /\ UNCHANGED vaultHookVars
  /\ UNCHANGED walletVars
  /\ UNCHANGED sessionVars
  /\ UNCHANGED initVars
  /\ UNCHANGED connVars
  /\ UNCHANGED switchVars
  /\ UNCHANGED budgetVars
  /\ UNCHANGED <<tokenAddress, ledger>>
  /\ UNCHANGED withdrawVars
  /\ UNCHANGED transferVars
  /\ OtherHooksIdle
  /\ UNCHANGED registryVars
  /\ TrackerEffects

\* ----------------------------------------------------- useVault.withdraw
\* the checks without the test of the signer
preflightNoSigner(sg, vc, acct, paused) ==
  IF vc = None \/ acct = Null THEN "WalletNotConnected"
  ELSE IF paused THEN "VaultPaused"
  ELSE "ok"

\* the checks without the pause check
preflightNoPause(sg, vc, acct, paused) ==
  IF sg = Null \/ vc = None \/ acct = Null THEN "WalletNotConnected"
  ELSE "ok"

\* the checks withdraw makes before its try block
preflight(sg, vc, acct, paused) ==
  IF sg = Null \/ vc = None \/ acct = Null THEN "WalletNotConnected"
  ELSE IF paused THEN "VaultPaused"
  ELSE "ok"

\* vaultContract.withdraw(tokenAddress, amountRaw)
vaultWithdrawCall(vc, sg, token, amountRaw) ==
  WriteCall("withdraw", vc.runner, IF vc.runner = "signer" THEN sg ELSE Null,
            vc.address, token, "", amountRaw, sendStatus(vc.runner))

\* withdraw(tokenAddress, amount).  The one write call goes through
\* vaultContract; through the provider-bound handle useVault builds it throws
\* before anything is sent and withdraw ends in the same run (catch, finally).
\* A handle that can send would leave withdraw waiting at "withdrawSend".
withdraw(token, amount) ==
  /\ wdPc = "idle"
  /\ LET pre == preflight(signer[VaultSess], vaultContract, account[VaultSess],
                          isPaused)
     IN IF pre # "ok"
          THEN /\ wdResult' = pre
               /\ wdCalls' = <<>>
               /\ UNCHANGED <<wdPc, loading>>
          ELSE IF parseUnits(amount, 18) = None
            THEN /\ wdResult' = "ProviderError"
                 /\ wdCalls' = <<>>
                 /\ loading' = FALSE
                 /\ UNCHANGED wdPc
            ELSE LET c == vaultWithdrawCall(vaultContract[1],
                            signer[VaultSess], token,
                            parseUnits(amount, 18)[1])
                 IN /\ wdCalls' = <<c>>
                    /\ IF c.status = "requested"
                         THEN /\ wdPc' = "withdrawSend"
                              /\ wdResult' = "none"
                              /\ loading' = TRUE
                         ELSE /\ wdResult' = "ProviderError"
                              /\ loading' = FALSE
                              /\ UNCHANGED wdPc
  /\ UNCHANGED <<isPaused>>
  /\ UNCHANGED vaultHookVars
  /\ UNCHANGED depositVars
  /\ UNCHANGED walletVars
  /\ UNCHANGED sessionVars
  /\ UNCHANGED initVars
  /\ UNCHANGED connVars
  /\ UNCHANGED switchVars
  /\ UNCHANGED <<tokenAddress, ledger>>
  /\ UNCHANGED transferVars
  /\ OtherHooksIdle
  /\ UNCHANGED registryVars
  /\ UNCHANGED trackerVars
  /\ Call

\* ------------------------------------------------------ useERC20Transfer
\* arguments the form passes to transfer: complete ones, an amount that is
\* not a number, and one argument missing at a time
TransferArgs ==
  {<<"0xUSDC", "0xCCC", "10", 6>>, <<"0xUSDC", "0xCCC", "10", 18>>,
   <<"0xUSDC", "0xCCC", "abc", 6>>, <<"", "0xCCC", "10", 6>>,
   <<"0xUSDC", "", "10", 6>>, <<"0xUSDC", "0xCCC", "", 6>>}
\* ... and to transferETH
TransferETHArgs == {<<"0xCCC", "10">>, <<"0xCCC", "abc">>, <<"0xCCC", "">>}

\* catch and finally of transfer / transferETH: setError(message), rethrow,
\* setLoading(false); success was set to null at the start of the try block
TransferThrow(calls, kind) ==
  /\ xfPc' = "idle"
  /\ xfCalls' = calls
  /\ xfResult' = kind
  /\ xfError' = kind
  /\ xfSuccess' = Null
  /\ xfLoading' = FALSE

\* frame of the steps of useERC20Transfer
TransferFrame ==
  /\ UNCHANGED walletVars
  /\ UNCHANGED sessionVars
  /\ UNCHANGED initVars
  /\ UNCHANGED connVars
  /\ UNCHANGED switchVars
  /\ UNCHANGED <<isPaused, loading>>
  /\ UNCHANGED vaultHookVars
  /\ UNCHANGED depositVars
  /\ UNCHANGED withdrawVars
  /\ UNCHANGED <<tokenAddress, ledger>>
  /\ UNCHANGED registryVars
  /\ UNCHANGED trackerVars
  /\ OtherHooksIdle

\* transfer(tokenAddress, toAddress, amount, decimals), up to its first await
transfer(token, to, amount, decimals) ==
  /\ xfPc = "idle"
  /\ IF signer[TransferSess] = Null \/ account[TransferSess] = Null
       THEN /\ xfResult' = "WalletNotConnected"
            /\ xfCalls' = <<>>
            /\ UNCHANGED <<xfPc, xfLoading, xfError, xfSuccess>>
       ELSE IF token = "" \/ to = "" \/ amount = ""
         THEN /\ xfResult' = "InvalidParameters"
              /\ xfCalls' = <<>>
              /\ UNCHANGED <<xfPc, xfLoading, xfError, xfSuccess>>
         ELSE IF parseUnits(amount, decimals) = None
           THEN TransferThrow(<<>>, "ProviderError")
           ELSE /\ xfPc' = "send"
                /\ xfCalls' = <<WriteCall("transfer", "signer",
                                  signer[TransferSess], token, token, to,
                                  parseUnits(amount, decimals)[1],
                                  sendStatus("signer"))>>
                /\ xfResult' = "none"
                /\ xfLoading' = TRUE
                /\ xfError' = Null
                /\ xfSuccess' = Null
  /\ TransferFrame
  /\ Call

\* transferETH(toAddress, amount), up to its first await:
\* signer.sendTransaction({ to, value: parseUnits(amount, 18) })
transferETH(to, amount) ==
  /\ xfPc = "idle"
  /\ IF signer[TransferSess] = Null \/ account[TransferSess] = Null
       THEN /\ xfResult' = "WalletNotConnected"
            /\ xfCalls' = <<>>
            /\ UNCHANGED <<xfPc, xfLoading, xfError, xfSuccess>>
       ELSE IF parseUnits(amount, 18) = None
         THEN TransferThrow(<<>>, "ProviderError")
         ELSE /\ xfPc' = "send"
              /\ xfCalls' = <<WriteCall("sendTransaction", "signer",
                                signer[TransferSess], to, "", "",
                                parseUnits(amount, 18)[1],
                                sendStatus("signer"))>>
              /\ xfResult' = "none"
              /\ xfLoading' = TRUE
              /\ xfError' = Null
              /\ xfSuccess' = Null
  /\ TransferFrame
  /\ Call

\* The wallet answers the signature request of transfer / transferETH.
TransferSent(res) ==
  /\ xfPc = "send"
  /\ IF res = "pending"
       THEN /\ xfPc' = "wait"
            /\ xfCalls' = SetLast(xfCalls, "pending")
            /\ UNCHANGED <<xfResult, xfLoading, xfError, xfSuccess>>
       ELSE TransferThrow(SetLast(xfCalls, res),
                          IF res = "rejected" THEN "TransactionRejected"
                                              ELSE "ProviderError")
  /\ TransferFrame
  /\ UNCHANGED budgetVars

\* tx.wait() answers: included (setSuccess with the receipt's hash) or
\* reverted.
TransferMined(res) ==
  /\ xfPc = "wait"
  /\ IF res = "included"
       THEN /\ xfPc' = "idle"
            /\ xfCalls' = SetLast(xfCalls, "included")
            /\ xfResult' = "confirmed"
            /\ xfSuccess' = "Transfer successful"
            /\ xfLoading' = FALSE
            /\ UNCHANGED xfError
       ELSE TransferThrow(SetLast(xfCalls, "reverted"), "TransactionReverted")
  /\ TransferFrame
  /\ UNCHANGED budgetVars

\* ------------------------------------- useERC20, useERC20Balance: steps
\* frame of the steps of the token hooks
TokenFrame ==
  /\ UNCHANGED <<hasEthereum, wAccount, wChain>>
  /\ UNCHANGED sessionVars
  /\ UNCHANGED initVars
  /\ UNCHANGED connVars
  /\ UNCHANGED switchVars
  /\ UNCHANGED <<isPaused, loading>>
  /\ UNCHANGED vaultHookVars
  /\ UNCHANGED depositVars
  /\ UNCHANGED withdrawVars
  /\ UNCHANGED transferVars
  /\ OtherHooksIdle

\* The row is rendered again with another tokenAddress: the effect of
\* useERC20 and the effect of useERC20Balance run again.
SetToken(t) ==
  /\ RowSess \in mounted
  /\ t # tokenAddress
  /\ tokenAddress' = t
  /\ RegistryEffect(provider[RowSess], t)
  /\ BalanceEffect(provider[RowSess], t, account[RowSess])
  /\ UNCHANGED <<mounted, ledger>>
  /\ TokenFrame
  /\ Call

\* which of the three reads succeed: all, all but decimals(), none
TokenInfoReads ==
  {[f \in {"name", "symbol", "decimals"} |-> TRUE],
   [f \in {"name", "symbol", "decimals"} |-> f # "decimals"],
   [f \in {"name", "symbol", "decimals"} |-> FALSE]}

\* tokenInfo?.decimals, a dependency of the effect of useERC20Balance
decimalsOf(ti) == IF ti = None THEN None ELSE Some(ti[1].decimals)

\* a fetchTokenInfo that stores what it could read
tokenInfoAfterPartial(ti, t, reads) ==
  IF \E f \in DOMAIN reads : reads[f]
    THEN Some([name |-> IF reads["name"] THEN TokenMeta(t).name ELSE "",
               symbol |-> IF reads["symbol"] THEN TokenMeta(t).symbol ELSE "",
               decimals |-> IF reads["decimals"] THEN TokenMeta(t).decimals
                                                 ELSE 0,
               address |-> t])
    ELSE ti

\* tokenInfo after fetchTokenInfo(t) ended: Promise.all resolves with the
\* three values when the three reads succeeded, otherwise it rejects and
\* setTokenInfo is not called
tokenInfoAfter(ti, t, reads) ==
  IF \A f \in DOMAIN reads : reads[f]
    THEN Some([name |-> TokenMeta(t).name, symbol |-> TokenMeta(t).symbol,
               decimals |-> TokenMeta(t).decimals, address |-> t])
    ELSE ti

\* the sequence fs without its k-th element
DropAt(fs, k) == SubSeq(fs, 1, k - 1) \o SubSeq(fs, k + 1, Len(fs))

\* The reads of run k of fetchTokenInfo are answered (reads: which of them
\* succeeded); the continuation, catch block and finally block run, then the
\* effect of useERC20Balance if tokenInfo?.decimals changed.  A hook that is
\* no longer rendered keeps no state.
TokenInfoAnswer(k, reads) ==
  /\ k \in 1..Len(regFetches)
  /\ regFetches' = DropAt(regFetches, k)
  /\ IF RowSess \in mounted
       THEN /\ tokenInfo' = tokenInfoAfter(tokenInfo, regFetches[k].token,
                                           reads)
            /\ tokenInfoFrom' = IF \A f \in DOMAIN reads : reads[f]
                                  THEN Some(wChain) ELSE tokenInfoFrom
            /\ regError' = IF \A f \in DOMAIN reads : reads[f]
                             THEN regError
                             ELSE "TokenMetadataUnavailable"
            /\ regLoading' = FALSE
       ELSE UNCHANGED <<tokenInfo, tokenInfoFrom, regError, regLoading>>
  /\ IF RowSess \in mounted /\ decimalsOf(tokenInfo') # decimalsOf(tokenInfo)
       THEN BalanceEffect(provider[RowSess], tokenAddress, account[RowSess])
       ELSE UNCHANGED trackerVars
  /\ UNCHANGED <<mounted, tokenAddress, ledger>>
  /\ TokenFrame
  /\ UNCHANGED budgetVars

\* run j of fs is in flight, or was answered with a balance while an older
\* run for the same token and account is still in flight
Kept(fs, j) ==
  \/ fs[j].status = "pending"
  \/ /\ fs[j].status = "ok"
     /\ \E k \in 1..(j - 1) : /\ fs[k].status = "pending"
                               /\ fs[k].token = fs[j].token
                               /\ fs[k].owner = fs[j].owner

\* the runs of fs that are kept, in their order
RECURSIVE KeptRuns(_, _)
KeptRuns(fs, j) ==
  IF j > Len(fs) THEN <<>>
  ELSE (IF Kept(fs, j) THEN <<fs[j]>> ELSE <<>>) \o KeptRuns(fs, j + 1)

\* balanceOf of run k of fetchBalance is answered: setBalanceRaw(result) or,
\* in the catch block, setError(message) and setBalanceRaw(0n); finally
\* setLoading(false).
BalanceAnswer(k, ok) ==
  /\ k \in 1..Len(balFetches)
  /\ balFetches[k].status = "pending"
  /\ balFetches' = KeptRuns([balFetches EXCEPT
                                ![k].status = IF ok THEN "ok" ELSE "fail"], 1)
  /\ IF RowSess \in mounted
       THEN /\ balanceRaw' = IF ok THEN balFetches[k].value ELSE 0
            /\ balError' = IF ok THEN balError ELSE "error"
            /\ balLoading' = FALSE
       ELSE UNCHANGED <<balanceRaw, balError, balLoading>>
  /\ UNCHANGED <<trSub, subs>>
  /\ UNCHANGED <<mounted, tokenAddress, ledger>>
  /\ UNCHANGED registryVars
  /\ TokenFrame
  /\ UNCHANGED budgetVars

\* the test of handleTransfer without toLowerCase
handleTransferExact(sub, from, to) == from = sub.owner \/ to = sub.owner

\* the test of handleTransfer: the event concerns the account of the effect
handleTransfer(sub, from, to) ==
  \/ toLowerCase(from) = toLowerCase(sub.owner)
  \/ toLowerCase(to) = toLowerCase(sub.owner)

\* the fetchBalance runs the listeners ss on token t start for the event
RECURSIVE fetchesFor(_, _, _, _, _)
fetchesFor(ss, t, from, to, l) ==
  IF ss = <<>> THEN <<>>
  ELSE (IF Head(ss).token = t /\ handleTransfer(Head(ss), from, to)
          THEN <<BalanceFetch(t, Head(ss).owner, balanceOf(l, t, Head(ss).owner))>>
          ELSE <<>>)
       \o fetchesFor(Tail(ss), t, from, to, l)

\* A transfer of one unit of token t is included and the contract emits
\* Transfer(from, to, 1); every listener registered on the token runs.
TransferEvent(t, from, to) ==
  /\ toLowerCase(from) # toLowerCase(to)
  /\ ledger[t][toLowerCase(from)] > 0
  /\ ledger' = [ledger EXCEPT ![t][toLowerCase(from)] = @ - 1,
                              ![t][toLowerCase(to)] = @ + 1]
  /\ LET new == fetchesFor(subs, t, from, to, ledger') IN
     IF new = <<>>
       THEN UNCHANGED <<balFetches, balLoading, balError>>
       ELSE /\ Len(balFetches) + Len(new) <= MaxInFlight
            /\ balFetches' = balFetches \o new
            /\ balLoading' = TRUE
            /\ balError' = Null
  /\ UNCHANGED <<balanceRaw, trSub, subs>>
  /\ UNCHANGED <<mounted, tokenAddress>>
  /\ UNCHANGED registryVars
  /\ TokenFrame
  /\ Event

\* The row is removed from the page: the cleanup functions of its effects
\* run.
Release ==
  /\ RowSess \in mounted
  /\ mounted' = mounted \ {RowSess}
  /\ subs' = effectCleanup(subs, trSub)
  /\ trSub' = None
  /\ UNCHANGED <<balanceRaw, balLoading, balError, balFetches>>
  /\ UNCHANGED <<tokenAddress, ledger>>
  /\ UNCHANGED registryVars
  /\ TokenFrame
  /\ Call

\* ------------------------------------------ useERC20Balance: the display
\* A bigint and a decimal numeral are kept as their decimal digits, most
\* significant first.
Zeros(n) == [i \in 1..n |-> 0]
Nines(n) == [i \in 1..n |-> 9]

RECURSIVE TrimLeft(_)
TrimLeft(ds) ==
  IF Len(ds) > 1 /\ Head(ds) = 0 THEN TrimLeft(Tail(ds)) ELSE ds

\* the digits ds without the zeros at its end, keeping at least keep digits
RECURSIVE TrimRight(_, _)
TrimRight(ds, keep) ==
  IF Len(ds) > keep /\ ds[Len(ds)] = 0
    THEN TrimRight(SubSeq(ds, 1, Len(ds) - 1), keep)
    ELSE ds

\* formatUnits(raw, decimals): the digits are padded to decimals + 1, the point
\* is put decimals digits from the end, the whole part loses its leading
\* zeros and the fraction its trailing zeros, each keeping one digit; with
\* decimals = 0 there is no point.
formatUnits(raw, decimals) ==
  IF decimals = 0 THEN [whole |-> raw, frac |-> <<>>]
  ELSE LET str == IF Len(raw) <= decimals
                    THEN Zeros(decimals + 1 - Len(raw)) \o raw ELSE raw
           index == Len(str) - decimals
       IN [whole |-> TrimLeft(SubSeq(str, 1, index)),
           frac |-> TrimRight(SubSeq(str, index + 1, Len(str)), 1)]

\* the fraction a is below the fraction b (digits after the point)
RECURSIVE FracLess(_, _)
FracLess(a, b) ==
  IF b = <<>> THEN FALSE
  ELSE IF a = <<>> THEN \E k \in 1..Len(b) : b[k] # 0
  ELSE IF Head(a) # Head(b) THEN Head(a) < Head(b)
  ELSE FracLess(Tail(a), Tail(b))

\* 1 - 2^-54, halfway between 1 and the double below it: a numeral from here
\* up to 1 has 1 as its nearest double (the tie goes to the even mantissa, 1)
HalfwayBelowOne ==
  <<9,9,9,9,9,9,9,9,9,9,9,9,9,9,9,9,4,4,4,4,8,8,8,4,8,7,6,8,7,4,2,1,7,2,9,7,8,
    8,1,8,4,1,6,5,9,5,4,5,8,9,8,4,3,7,5>>

\* halfway between the double nearest to 0.0001 and the double below it: a
\* numeral from here up to 0.0001 has the double of 0.0001 as its nearest
HalfwayBelowTenThousandth ==
  <<0,0,0,0,9,9,9,9,9,9,9,9,9,9,9,9,9,9,9,9,9,8,0,1,5,9,1,0,0,2,4,3,5,1,5,2,6,
    8,8,5,7,6,6,3,6,1,3,7,4,4,0,8,0,0,6,6,6,8,0,9,0,8,2,0,3,1,2,5>>

\* parseFloat(str): the double nearest to the numeral, kept as the decimal it
\* compares and prints as.  Below 1 and from HalfwayBelowOne on that is 1;
\* below 0.0001 and from HalfwayBelowTenThousandth on it is the double of
\* 0.0001; elsewhere the double lies on the same side of 0, 0.0001 and 1 as
\* the numeral.
parseFloat(str) ==
  LET frac == TrimRight(str.frac, 0) IN
  IF str.whole = <<0>> /\ ~FracLess(frac, HalfwayBelowOne)
    THEN [whole |-> <<1>>, frac |-> <<>>]
  ELSE IF /\ str.whole = <<0>>
          /\ FracLess(frac, <<0, 0, 0, 1>>)
          /\ ~FracLess(frac, HalfwayBelowTenThousandth)
    THEN [whole |-> <<0>>, frac |-> <<0, 0, 0, 1>>]
  ELSE [whole |-> str.whole, frac |-> frac]

\* the first n digits of the fraction, filled with zeros
FracDigits(frac, n) ==
  [i \in 1..n |-> IF i <= Len(frac) THEN frac[i] ELSE 0]

\* the digits ds plus one, as digits of the same length plus a carry
RECURSIVE PlusOne(_)
PlusOne(ds) ==
  IF ds = <<>> THEN [digits |-> <<>>, carry |-> 1]
  ELSE LET rest == PlusOne(Tail(ds))
           d == Head(ds) + rest.carry
       IN [digits |-> <<d % 10>> \o rest.digits, carry |-> d \div 10]

\* num rounded to n fraction digits (a fraction of one half or more rounds
\* up): the digits of the whole part and n fraction digits
RoundTo(num, n) ==
  LET all == num.whole \o FracDigits(num.frac, n)
      up == n < Len(num.frac) /\ num.frac[n + 1] >= 5
      sum == PlusOne(all)
      out == IF ~up THEN all
             ELSE IF sum.carry = 1 THEN <<1>> \o sum.digits ELSE sum.digits
  IN [whole |-> SubSeq(out, 1, Len(out) - n),
      frac |-> SubSeq(out, Len(out) - n + 1, Len(out))]

RECURSIVE digitString(_)
digitString(ds) ==
  IF ds = <<>> THEN "" ELSE HexDigit[Head(ds) + 1] \o digitString(Tail(ds))

\* the whole part in groups of three digits, separated by commas
RECURSIVE grouped(_)
grouped(ds) ==
  IF Len(ds) <= 3 THEN digitString(ds)
  ELSE grouped(SubSeq(ds, 1, Len(ds) - 3)) \o ","
       \o digitString(SubSeq(ds, Len(ds) - 2, Len(ds)))

\* num.toFixed(4)
toFixed(num, n) ==
  LET r == RoundTo(num, n) IN digitString(r.whole) \o "." \o digitString(r.frac)

\* num.toLocaleString("en-US", { maximumFractionDigits: 6 }): grouping, at
\* most six fraction digits, none of them a trailing zero
toLocaleString(num, maximumFractionDigits) ==
  LET r == RoundTo(num, maximumFractionDigits)
      frac == TrimRight(r.frac, 0)
  IN grouped(r.whole) \o (IF frac = <<>> THEN "" ELSE "." \o digitString(frac))

IsZero(num) == num.whole = <<0>> /\ \A k \in 1..Len(num.frac) : num.frac[k] = 0

\* balanceFormatted: formatUnits(balanceRaw, tokenInfo.decimals), "0" without
\* tokenInfo
balanceFormatted(info, raw) ==
  IF info = None THEN [whole |-> <<0>>, frac |-> <<>>]
                 ELSE formatUnits(raw, info[1].decimals)

\* a display that prints every amount with four fraction digits
balanceDisplayAlwaysFixed(info, raw) ==
  IF info = None THEN "0.00"
  ELSE LET num == parseFloat(balanceFormatted(info, raw)) IN
       IF IsZero(num) THEN "0.00"
       ELSE IF num.whole = <<0>> /\ FracLess(num.frac, <<0, 0, 0, 1>>)
         THEN "< 0.0001"
       ELSE toFixed(num, 4)

\* balanceDisplay
balanceDisplay(info, raw) ==
  IF info = None THEN "0.00"
  ELSE LET num == parseFloat(balanceFormatted(info, raw)) IN
       IF IsZero(num) THEN "0.00"
       ELSE IF num.whole = <<0>> /\ FracLess(num.frac, <<0, 0, 0, 1>>)
         THEN "< 0.0001"
       ELSE IF num.whole = <<0>> THEN toFixed(num, 4)
       ELSE toLocaleString(num, 6)

\* tokenInfo?.decimals || 18: the right operand is taken when the left one is
\* undefined or falsy, and the number 0 is falsy
returnedDecimals(info) ==
  IF info = None THEN 18
  ELSE IF info[1].decimals = 0 THEN 18
  ELSE info[1].decimals

\* the digits that bound the balances rendered
MaxDigits == 18

\* the balances rendered: 0, 1500000, 99..9, 10..0, 50..0, 160..0,
\* 12345670..0, and balances next to HalfwayBelowOne for 18 decimals and to
\* HalfwayBelowTenThousandth for 24
RawBalances ==
  {<<0>>, <<1, 5, 0, 0, 0, 0, 0>>, Nines(16) \o <<4, 4>>, Nines(16) \o <<4, 5>>,
   Nines(17), Nines(20)}
    \cup {Nines(k) : k \in 1..MaxDigits}
    \cup {<<1>> \o Zeros(k) : k \in 0..MaxDigits}
    \cup {<<5>> \o Zeros(k) : k \in 0..MaxDigits}
    \cup {<<1, 6>> \o Zeros(k) : k \in 0..MaxDigits}
    \cup {<<1, 2, 3, 4, 5, 6, 7>> \o Zeros(k) : k \in 0..MaxDigits}

\* the decimals of the tokens rendered, and no tokenInfo
DisplayInfos == {None} \cup {Some([decimals |-> d]) : d \in {0, 6, 18, 24}}

\* useERC20Balance is rendered with balanceRaw = raw and tokenInfo = info
Render(raw, info) ==
  /\ RowSess \in mounted
  /\ dispRaw' = raw
  /\ dispInfo' = info
  /\ dispOut' = Some(balanceDisplay(info, raw))
  /\ dispDecimals' = returnedDecimals(info)
  /\ UNCHANGED <<mounted, tokenAddress, ledger>>
  /\ UNCHANGED registryVars
  /\ UNCHANGED trackerVars
  /\ UNCHANGED <<hasEthereum, wAccount, wChain>>
  /\ UNCHANGED sessionVars
  /\ UNCHANGED initVars
  /\ UNCHANGED connVars
  /\ UNCHANGED switchVars
  /\ UNCHANGED <<isPaused, loading>>
  /\ UNCHANGED vaultHookVars
  /\ UNCHANGED depositVars
  /\ UNCHANGED withdrawVars
  /\ UNCHANGED transferVars
  /\ UNCHANGED queryVars
  /\ UNCHANGED appVars
  /\ UNCHANGED budgetVars

\* the digits a double holds exactly
DoubleDigits == 15

\* The renders followed: those whose amount is below one token, or has at
\* most DoubleDigits digits, so that its double prints the digits of the
\* numeral.
Renders ==
  {r \in RawBalances \X DisplayInfos :
     \/ r[2] = None
     \/ Len(r[1]) <= DoubleDigits
     \/ Len(r[1]) <= r[2][1].decimals}

NextDisplay == \E r \in Renders : Render(r[1], r[2])

\* ------------------------------- useVault: getUserBalance, getAllBalances
\* what the vault's getUserBalance(user, token) answers
VaultPosition(user, token) ==
  IF toLowerCase(user) = "0xaaa" /\ token = "0xUSDC" THEN 5 ELSE 0

\* the token lists getAllBalances is called with
TokenLists == {<<>>, <<"0xUSDC">>, <<"0xUSDC", "0xDAI">>}

Returned(v) == [kind |-> "returned", value |-> v]
Thrown == [kind |-> "thrown", value |-> 0]

\* the decimal digits of n, and n.toString()
RECURSIVE digitsOf(_)
digitsOf(n) == IF n < 10 THEN <<n>> ELSE digitsOf(n \div 10) \o <<n % 10>>
toString(n) == digitString(digitsOf(n))

VaultBalance(token, raw) ==
  [tokenAddress |-> token, balanceRaw |-> raw, balanceFormatted |-> toString(raw)]

\* a catch block that throws the error again, as the one of deposit does
caughtRethrows(fallback) == Thrown

\* the catch blocks of the two queries: log, return the fallback
caught(fallback) == Returned(fallback)

\* Promise.all over the reads: the values when every read succeeded, None
\* (rejected) as soon as one failed
PromiseAll(oks, values) ==
  IF \A k \in DOMAIN oks : oks[k] THEN Some(values) ELSE None

QueryFrame ==
  /\ UNCHANGED walletVars
  /\ UNCHANGED sessionVars
  /\ UNCHANGED initVars
  /\ UNCHANGED connVars
  /\ UNCHANGED switchVars
  /\ UNCHANGED <<isPaused, loading>>
  /\ UNCHANGED vaultHookVars
  /\ UNCHANGED depositVars
  /\ UNCHANGED withdrawVars
  /\ UNCHANGED transferVars
  /\ UNCHANGED <<tokenAddress, ledger>>
  /\ UNCHANGED registryVars
  /\ UNCHANGED trackerVars
  /\ UNCHANGED displayVars
  /\ UNCHANGED appVars

\* a query called: without vaultContract or account it returns early (the
\* fallback), else its reads are sent
QueryCalled(kind, tokens, fallback) ==
  /\ qryPc = "idle"
  /\ qryKind' = kind
  /\ qryTokens' = tokens
  /\ qryAccount' = account[VaultSess]
  /\ qryAnswers' = <<>>
  /\ IF vaultContract = None \/ account[VaultSess] = Null
       THEN /\ qryResult' = Returned(fallback)
            /\ UNCHANGED qryPc
       ELSE /\ qryResult' = None
            /\ qryPc' = kind
  /\ QueryFrame
  /\ Call

\* getUserBalance(tokenAddress), up to its await
getUserBalance(token) == QueryCalled("getUserBalance", <<token>>, 0)

\* the read of getUserBalance answers: BigInt(balance), or the catch block
UserBalanceAnswer(ok) ==
  /\ qryPc = "getUserBalance"
  /\ qryPc' = "idle"
  /\ qryAnswers' = <<ok>>
  /\ qryResult' = IF ok THEN Returned(VaultPosition(qryAccount, qryTokens[1]))
                        ELSE caught(0)
  /\ UNCHANGED <<qryKind, qryTokens, qryAccount>>
  /\ QueryFrame
  /\ UNCHANGED budgetVars

\* getAllBalances(tokenAddresses), up to its await
getAllBalances(tokens) == QueryCalled("getAllBalances", tokens, <<>>)

\* the reads of getAllBalances have answered (oks: which succeeded):
\* Promise.all resolves and the list is returned, or it rejects and the catch
\* block runs
AllBalancesAnswer(oks) ==
  /\ qryPc = "getAllBalances"
  /\ qryPc' = "idle"
  /\ qryAnswers' = oks
  /\ LET balances ==
           PromiseAll(oks, [k \in 1..Len(qryTokens) |->
                              VaultBalance(qryTokens[k],
                                           VaultPosition(qryAccount, qryTokens[k]))])
     IN qryResult' = IF balances # None THEN Returned(balances[1])
                                         ELSE caught(<<>>)
  /\ UNCHANGED <<qryKind, qryTokens, qryAccount>>
  /\ QueryFrame
  /\ UNCHANGED budgetVars

NextQueries ==
  \/ \E token \in Tokens : getUserBalance(token)
  \/ \E ok \in BOOLEAN : UserBalanceAnswer(ok)
  \/ \E tokens \in TokenLists : getAllBalances(tokens)
  \/ \E oks \in [1..Len(qryTokens) -> BOOLEAN] : AllBalancesAnswer(oks)

\* ------------------------------------------------- App: handleTransfer
\* the gas estimates the simulation answers
Estimates == {21000, 21001, 52333, 64999}

\* the error codes a provider call fails with
AppErrorCodes == {"INSUFFICIENT_FUNDS", "ACTION_REJECTED", "CALL_EXCEPTION"}

\* a call of a run that reaches the provider
ProviderCall(method, gasLimit) == [method |-> method, gasLimit |-> gasLimit]

\* a run of handleTransfer after its three setters
NewRun ==
  [pc |-> "getSigner", estimated |-> "no", estimate |-> None, calls |-> <<>>,
   hash |-> Null, error |-> Null]

\* a buffer computed on the hundreds of the estimate
gasLimitWithBufferOnHundreds(estimatedGas) == (estimatedGas \div 100) * 120

\* (estimatedGas * 120n) / 100n, a bigint division
gasLimitWithBuffer(estimatedGas) == (estimatedGas * 120) \div 100

\* the message the catch block sets for an error code
catchMessage(code) ==
  IF code = "INSUFFICIENT_FUNDS"
    THEN "You don't have enough ETH for gas fees."
  ELSE IF code = "ACTION_REJECTED" THEN "Transaction rejected by user."
  ELSE "Gas estimation failed. The transaction might revert."

\* a run that an error sent to the catch block
Caught(run, code) == [run EXCEPT !.pc = "done", !.error = catchMessage(code)]

\* a run that sends with the signer's own gas limit when the estimation failed
estimateFailedSendsAnyway(run, code) ==
  [run EXCEPT !.estimated = "failed", !.pc = "send",
              !.calls = Append(@, ProviderCall("eth_sendTransaction", None))]

\* the run after contract.transfer.estimateGas threw: the catch block
estimateFailed(run, code) == Caught([run EXCEPT !.estimated = "failed"], code)

\* the run after estimateGas answered e: contract.transfer(recipient, amount,
\* { gasLimit: gasLimitWithBuffer }) is sent
estimateDone(run, e) ==
  [run EXCEPT !.estimated = "ok", !.estimate = Some(e), !.pc = "send",
              !.calls = Append(@, ProviderCall("eth_sendTransaction",
                                                Some(gasLimitWithBuffer(e))))]

AppFrame ==
  /\ UNCHANGED <<mounted, hasEthereum, wChain>>
  /\ UNCHANGED sessionVars
  /\ UNCHANGED initVars
  /\ UNCHANGED connVars
  /\ UNCHANGED switchVars
  /\ UNCHANGED <<isPaused, loading>>
  /\ UNCHANGED vaultHookVars
  /\ UNCHANGED depositVars
  /\ UNCHANGED withdrawVars
  /\ UNCHANGED transferVars
  /\ UNCHANGED <<tokenAddress, ledger>>
  /\ UNCHANGED registryVars
  /\ UNCHANGED trackerVars
  /\ UNCHANGED displayVars
  /\ UNCHANGED queryVars

\* what a step of run k leaves in the state of App: a run that ended in the
\* catch block has set error, a run that ended has set loading to false
AppRunStep(k, run) ==
  /\ appRuns' = [appRuns EXCEPT ![k] = run]
  /\ appError' = IF run.pc = "done" /\ run.error # Null THEN run.error
                                                        ELSE appError
  /\ appLoading' = IF run.pc = "done" THEN FALSE ELSE appLoading

\* App's accountsChanged listener: setAccount and fetchContractData, or
\* setAccount(null) and setTokenData(null)
AppAccountsChanged(a) ==
  /\ hasEthereum
  /\ a # wAccount
  /\ wAccount' = a
  /\ appAccount' = a
  /\ IF a # Null
       THEN appLoading' = TRUE /\ appFetches' = appFetches + 1
       ELSE UNCHANGED <<appLoading, appFetches>>
  /\ UNCHANGED <<appError, appTxHash, appRuns>>
  /\ AppFrame
  /\ Event

\* a run of fetchContractData ends: setTokenData or setError, then
\* setLoading(false)
AppFetchDone(ok) ==
  /\ appFetches > 0
  /\ appFetches' = appFetches - 1
  /\ appLoading' = FALSE
  /\ appError' = IF ok THEN appError ELSE "Failed to load token information."
  /\ UNCHANGED <<appAccount, appTxHash, appRuns, wAccount>>
  /\ AppFrame
  /\ UNCHANGED budgetVars

\* the "Transfer with Gas Buffer" button, rendered with an account and
\* enabled while loading is false: handleTransfer up to its first await
AppHandleTransfer ==
  /\ appAccount # Null
  /\ ~appLoading
  /\ IF hasEthereum
       THEN /\ appLoading' = TRUE
            /\ appError' = Null
            /\ appTxHash' = Null
            /\ appRuns' = Append(appRuns, NewRun)
       ELSE UNCHANGED <<appLoading, appError, appTxHash, appRuns>>
  /\ UNCHANGED <<appAccount, appFetches, wAccount>>
  /\ AppFrame
  /\ Call

\* provider.getSigner() of run k answers; with a signer estimateGas is sent
AppSignerAnswer(k, ok) ==
  /\ k \in 1..Len(appRuns)
  /\ appRuns[k].pc = "getSigner"
  /\ AppRunStep(k, IF ok
                     THEN [appRuns[k] EXCEPT
                             !.pc = "estimate",
                             !.calls = Append(@, ProviderCall("eth_estimateGas",
                                                              None))]
                     ELSE Caught(appRuns[k], "ACTION_REJECTED"))
  /\ UNCHANGED <<appAccount, appTxHash, appFetches, wAccount>>
  /\ AppFrame
  /\ UNCHANGED budgetVars

\* estimateGas of run k answers an estimate
AppEstimateAnswer(k, e) ==
  /\ k \in 1..Len(appRuns)
  /\ appRuns[k].pc = "estimate"
  /\ AppRunStep(k, estimateDone(appRuns[k], e))
  /\ UNCHANGED <<appAccount, appTxHash, appFetches, wAccount>>
  /\ AppFrame
  /\ UNCHANGED budgetVars

\* estimateGas of run k throws
AppEstimateError(k, code) ==
  /\ k \in 1..Len(appRuns)
  /\ appRuns[k].pc = "estimate"
  /\ AppRunStep(k, estimateFailed(appRuns[k], code))
  /\ UNCHANGED <<appAccount, appTxHash, appFetches, wAccount>>
  /\ AppFrame
  /\ UNCHANGED budgetVars

\* the hash of the transaction run k sent
TxHashOf(k) == IF k = 1 THEN "0xh1" ELSE IF k = 2 THEN "0xh2" ELSE "0xh3"

\* the transaction of run k is sent (setTxHash(tx.hash)), or the wallet
\* refuses it
AppSendAnswer(k, res) ==
  /\ k \in 1..Len(appRuns)
  /\ appRuns[k].pc = "send"
  /\ IF res = "ok"
       THEN /\ AppRunStep(k, [appRuns[k] EXCEPT !.pc = "wait",
                                                !.hash = TxHashOf(k)])
            /\ appTxHash' = TxHashOf(k)
       ELSE /\ AppRunStep(k, Caught(appRuns[k], res))
            /\ UNCHANGED appTxHash
  /\ UNCHANGED <<appAccount, appFetches, wAccount>>
  /\ AppFrame
  /\ UNCHANGED budgetVars

\* tx.wait() of run k answers a receipt: with status 1 the balance is read
\* again (fetchContractData, not awaited) and the run ends; otherwise
\* "Transaction failed on-chain" is thrown to the catch block
AppMined(k, status) ==
  /\ k \in 1..Len(appRuns)
  /\ appRuns[k].pc = "wait"
  /\ IF status = 1
       THEN /\ AppRunStep(k, [appRuns[k] EXCEPT !.pc = "done"])
            /\ appFetches' = appFetches + 1
       ELSE /\ AppRunStep(k, Caught(appRuns[k], "failed on-chain"))
            /\ UNCHANGED appFetches
  /\ UNCHANGED <<appAccount, appTxHash, wAccount>>
  /\ AppFrame
  /\ UNCHANGED budgetVars

NextApp ==
  \/ \E a \in Accounts \cup {Null} : AppAccountsChanged(a)
  \/ \E ok \in BOOLEAN : AppFetchDone(ok)
  \/ AppHandleTransfer
  \/ \E k \in 1..Len(appRuns), ok \in BOOLEAN : AppSignerAnswer(k, ok)
  \/ \E k \in 1..Len(appRuns), e \in Estimates : AppEstimateAnswer(k, e)
  \/ \E k \in 1..Len(appRuns), code \in AppErrorCodes : AppEstimateError(k, code)
  \/ \E k \in 1..Len(appRuns), res \in {"ok"} \cup AppErrorCodes :
       AppSendAnswer(k, res)
  \/ \E k \in 1..Len(appRuns), status \in {0, 1} : AppMined(k, status)

\* App rendered on a page of its own: none of the hooks is
InitApp == InitOf({})

SpecApp == InitApp /\ [][NextApp]_vars

\* what the wallet and the pending mount-effect lookups do on their own
\* (the lookups of the session copies in S)
NextEnv(S) ==
  \/ \E a \in Accounts \cup {Null} : AccountsChanged(a)
  \/ \E c \in Chains : ChainChanged(c)
  \/ \E i \in S, ok \in BOOLEAN, a \in Accounts \cup {Null} :
       InitSignerResolve(i, ok, a)
  \/ \E i \in S, ok \in BOOLEAN : InitNetworkResolve(i, ok)

\* the part of it that concerns accounts
NextAccounts(S) ==
  \/ \E a \in Accounts \cup {Null} : AccountsChanged(a)
  \/ \E i \in S, ok \in BOOLEAN, a \in Accounts \cup {Null} :
       InitSignerResolve(i, ok, a)

\* the session copy i driven through the functions useWeb3 returns
NextConnect(i) ==
  \/ connectWallet(i)
  \/ \E res \in {"ok", "UserRejected", "ConnectionError"},
        a \in Accounts \cup {Null} : ConnectAccounts(i, res, a)
  \/ \E ok \in BOOLEAN : ConnectNetwork(i, ok)
  \/ \E ok \in BOOLEAN, a \in Accounts \cup {Null} : ConnectSigner(i, ok, a)
  \/ disconnectWallet(i)

\* The application as wired: VaultDashboard calls connectWallet of its own
\* copy of the session; the copy inside useVault only hears the wallet.
Next == NextEnv(Dashboard) \/ NextConnect("ui")

Spec == Init /\ [][Next]_vars

NextSwitch(i) ==
  \/ \E target \in Chains : switchNetwork(i, target)
  \/ \E ans \in SwitchAnswers : SwitchAnswer(i, ans)
  \/ \E ok \in BOOLEAN, switched \in BOOLEAN : AddAnswer(i, ok, switched)

NextVault ==
  \/ \E ok \in BOOLEAN, paused \in BOOLEAN : PausedAnswer(ok, paused)
  \/ \E token \in Tokens, amount \in Amounts : deposit(token, amount)
  \/ \E res \in {"pending", "rejected", "failed"} : DepositSent(res)
  \/ \E res \in {"included", "reverted"} : DepositMined(res)

NextWithdraw == \E token \in Tokens, amount \in Amounts : withdraw(token, amount)

NextTransfer ==
  \/ \E args \in TransferArgs : transfer(args[1], args[2], args[3], args[4])
  \/ \E args \in TransferETHArgs : transferETH(args[1], args[2])
  \/ \E res \in {"pending", "rejected", "failed"} : TransferSent(res)
  \/ \E res \in {"included", "reverted"} : TransferMined(res)

\* useVault rendered on its own, the session copy it creates driven through
\* the functions useWeb3 returns
SpecVault == InitVault /\ [][NextEnv({VaultSess}) \/ NextConnect(VaultSess) \/ NextVault]_vars

\* a client hook rendered on its own, useVault or useERC20Transfer, with the
\* session copy it creates driven through the functions useWeb3 returns; the
\* wallet stays on the chain it was on when the page loaded
InitTransfer == InitOf({TransferSess})
InitClients == InitVault \/ InitTransfer

SpecClients ==
  InitClients /\ [][\/ NextAccounts({VaultSess, TransferSess})
                    \/ \E i \in {VaultSess, TransferSess}, ok \in BOOLEAN :
                         InitNetworkResolve(i, ok)
                    \/ \E i \in {VaultSess, TransferSess} :
                         i \in mounted /\ NextConnect(i)
                    \/ NextVault \/ NextWithdraw \/ NextTransfer]_vars

\* the client hooks with a wallet that sends no notification: the session
\* copy of the hook changes through connectWallet and disconnectWallet only
SpecWrites ==
  InitClients /\ [][\/ \E i \in {VaultSess, TransferSess} :
                         i \in mounted /\ NextConnect(i)
                    \/ NextVault \/ NextWithdraw \/ NextTransfer]_vars

NextTokens ==
  \/ \E t \in Tokens \cup {Null} : SetToken(t)
  \/ \E k \in 1..Len(regFetches), reads \in TokenInfoReads :
       TokenInfoAnswer(k, reads)
  \/ \E k \in 1..Len(balFetches), ok \in BOOLEAN : BalanceAnswer(k, ok)
  \/ \E e \in TransferEvents : TransferEvent(e[1], e[2], e[3])
  \/ Release

\* a TokenBalanceRow on its own: its session copy hears the wallet, its
\* token hooks read the chain (whichever chain that is).  Rows are rendered
\* for the balances of an account, so the wallet exposes one.
InitRow == InitOf({RowSess}) /\ wChain = 11155111 /\ wAccount = "0xAAA"

SpecBalance == InitRow /\ [][NextAccounts({RowSess}) \/ NextTokens]_vars

\* useVault rendered on its own, its balance queries called while the wallet
\* changes the account
SpecQueries ==
  InitVault /\ [][\/ NextAccounts({VaultSess})
                  \/ \E ok \in BOOLEAN : InitNetworkResolve(VaultSess, ok)
                  \/ NextQueries]_vars

\* the renders of the useERC20Balance of a TokenBalanceRow
SpecDisplay == InitRow /\ [][NextDisplay]_vars

\* the useERC20 of a TokenBalanceRow while the wallet changes its active
\* chain; the row's session copy has no account yet, so no balance is read
NextRegistry ==
  \/ \E c \in Chains : ChainChanged(c)
  \/ \E t \in Tokens \cup {Null} : SetToken(t)
  \/ \E k \in 1..Len(regFetches), reads \in TokenInfoReads :
       TokenInfoAnswer(k, reads)

SpecRegistry == InitRow /\ [][NextRegistry]_vars

\* the dashboard's network buttons
SpecSwitch == Init /\ [][NextEnv({"ui"}) \/ NextSwitch("ui")]_vars

\* ================================================================ claims

\* ---- C1 (SpecVault)
\* C1: within one deposit invocation, every call of the vault's deposit entry
\* point comes after an approve call of that invocation that was sent and
\* included; after a rejected, failed or reverted approve there is none.
C1_DepositOnlyAfterIncludedApprove ==
  \A k \in 1..Len(depCalls) :
    depCalls[k].fn = "deposit" =>
      \E j \in 1..(k - 1) :
        depCalls[j].fn = "approve" /\ depCalls[j].status = "included"

\* a deposit that ended because the user declined the approve
C1_Witness ==
  /\ depPc = "idle"
  /\ depResult = "TransactionRejected"
  /\ Len(depCalls) = 1
  /\ depCalls[1].fn = "approve"
  /\ depCalls[1].status = "rejected"

\* ---- C2 (SpecVault)
DepositPhasesDone ==
  /\ Len(depCalls) = 2
  /\ depCalls[1].fn = "approve" /\ depCalls[1].status = "included"
  /\ depCalls[1].spender = depClosure.vaultAddress
  /\ depCalls[2].fn = "deposit" /\ depCalls[2].status = "included"
  /\ depCalls[1].token = depToken /\ depCalls[2].token = depToken
  /\ depCalls[1].amount = depCalls[2].amount

\* no call the wallet or the chain was asked for was declined, failed or
\* reverted
WalletAcceptedAll ==
  \A k \in 1..Len(depCalls) :
    depCalls[k].status \notin {"rejected", "failed", "reverted"}

C3_ClientsSeeConnectedSession ==
  signer["ui"] # Null =>
    \A i \in Inst : /\ account[i] = account["ui"]
                    /\ chainId[i] = chainId["ui"]
                    /\ signer[i] = signer["ui"]

\* ---- C4 (Spec)
\* C4: in every reachable WalletState a signer is held only while an account
\* is present.
C4_SignerImpliesAccount ==
  \A i \in Inst : signer[i] # Null => account[i] # Null

\* ---- C5 (Spec)
\* C5: network is absent exactly when chainId is absent, and otherwise it is
\* the ChainRegistry descriptor of chainId (the registered entry, or the
\* synthesized one with isSupported = false), carrying that chainId.
C5_NetworkDerivedFromChainId ==
  \A i \in Inst :
    /\ (network[i] = None) <=> (chainId[i] = None)
    /\ chainId[i] # None =>
         /\ network[i] = Some(NetworkInfoFor(chainId[i][1]))
         /\ network[i][1].chainId = chainId[i][1]
         /\ (~HasDescriptor(chainId[i][1]) => ~network[i][1].isSupported)

\* the wallet moved to the unregistered chain and told the session
C5_Witness ==
  /\ wChain = 999999
  /\ chainId["ui"] = Some(999999)
  /\ network["ui"] # None
  /\ network["ui"][1].name = "Chain 999999"

\* ---- C6 (SpecSwitch)
\* C6: with a provider present, a finished switchNetwork whose target has no
\* descriptor in the registry has failed with UnsupportedNetwork, whatever
\* the provider answered.
C6_UnregisteredTargetIsUnsupported ==
  \A i \in Inst :
    (/\ provider[i]
     /\ swPc[i] = "idle"
     /\ swTarget[i] # None
     /\ ~HasDescriptor(swTarget[i][1]))
      => swResult[i] = "UnsupportedNetwork"

\* ---- C7 (SpecSwitch)
\* C7: a wallet_addEthereumChain request is made only after the switch
\* request was answered with the unrecognized-chain code and only for a
\* target with a registry descriptor; unrecognized chain without descriptor
\* gives UnsupportedNetwork and no add request.
C7_AddOnlyForRegisteredUnrecognized ==
  \A i \in Inst :
    /\ \A k \in 1..Len(swRequests[i]) :
         swRequests[i][k].method = "wallet_addEthereumChain" =>
           /\ k = 2
           /\ swRequests[i][1].method = "wallet_switchEthereumChain"
           /\ swRequests[i][1].answer = ToString(UnrecognizedChain)
           /\ HasDescriptor(swTarget[i][1])
    /\ (/\ Len(swRequests[i]) >= 1
        /\ swRequests[i][1].answer = ToString(UnrecognizedChain)
        /\ ~HasDescriptor(swTarget[i][1]))
       => (swResult[i] = "UnsupportedNetwork" /\ Len(swRequests[i]) = 1)

\* switchNetwork(999999) answered with the unrecognized-chain code
C7_Witness ==
  /\ swTarget["ui"] = Some(999999)
  /\ swPc["ui"] = "idle"
  /\ Len(swRequests["ui"]) = 1
  /\ swRequests["ui"][1].answer = ToString(UnrecognizedChain)
  /\ swResult["ui"] = "UnsupportedNetwork"

\* ---- C8 (SpecSwitch)
Methods(reqs) == [k \in 1..Len(reqs) |-> reqs[k].method]

\* C8: a switchNetwork that got the unrecognized-chain code for a registered
\* target and then returned has made the requests switch, add, switch.
C8_SwitchAddSwitch ==
  \A i \in Inst :
    (/\ swPc[i] = "idle"
     /\ swResult[i] = "ok"
     /\ Len(swRequests[i]) >= 1
     /\ swRequests[i][1].answer = ToString(UnrecognizedChain))
    => Methods(swRequests[i]) = <<"wallet_switchEthereumChain",
                                  "wallet_addEthereumChain",
                                  "wallet_switchEthereumChain">>

\* ---- C9 (SpecSwitch)
\* the step in which the switch request of copy i is answered with an error
\* other than the unrecognized-chain code
OtherSwitchError(i) ==
  /\ swPc[i] = "switch"
  /\ swRequests'[i][1].answer \notin
       {"pending", "ok", ToString(UnrecognizedChain)}

\* C9: when the switch request is answered with an error other than the
\* unrecognized-chain code, switchNetwork ends with NetworkSwitchFailed in
\* that step, has made the switch request only, and the step leaves the
\* WalletState of every copy (and the wallet) as it was.
C9_OtherErrorIsNetworkSwitchFailed ==
  [][\A i \in Inst :
       OtherSwitchError(i) =>
         /\ swPc'[i] = "idle"
         /\ swResult'[i] = "NetworkSwitchFailed"
         /\ Len(swRequests'[i]) = 1
         /\ UNCHANGED sessionVars
         /\ UNCHANGED walletVars]_vars

\* switchNetwork to a registered chain refused by the user
C9_Witness ==
  /\ swPc["ui"] = "idle"
  /\ swResult["ui"] = "NetworkSwitchFailed"
  /\ swTarget["ui"] = Some(8453)
  /\ Len(swRequests["ui"]) = 1
  /\ swRequests["ui"][1].answer = "4001"

\* ---- C10 (Spec)
ConnectFailures == {"NoProviderDetected", "UserRejected", "ConnectionError"}

\* the step in which connectWallet of copy i fails
ConnectFailedStep(i) ==
  /\ connResult'[i] \in ConnectFailures
  /\ \/ connPc[i] # "idle" /\ connPc'[i] = "idle"
     \/ /\ connPc[i] = "idle" /\ ~provider[i]
        /\ nOps' = nOps + 1
        /\ connResult'[i] = "NoProviderDetected"

\* C10: right after a connect() that failed, for whatever reason, the
\* session is Disconnected: no account and no signer.
C10_FailedConnectIsDisconnected ==
  [][\A i \in Inst :
       ConnectFailedStep(i) => (account'[i] = Null /\ signer'[i] = Null)]_vars

\* ---- C11 (Spec)
\* C11: a session copy goes from Disconnected (no account) to Connected
\* (account present) only in the step that completes a successful
\* connectWallet of that copy; no wallet notification and no lookup of the
\* mount effect does it.
C11_ConnectedOnlyByConnect ==
  [][\A i \in Inst :
       (account[i] = Null /\ account'[i] # Null)
         => (connPc[i] = "getSigner" /\ connResult'[i] = "ok")]_vars

\* ---- C12 (Spec)
\* C12: a disconnectWallet step leaves the copy without account, chainId,
\* network and signer, sends nothing to the injected provider (no connect or
\* switch request is started or answered, the wallet is as before, no paused()
\* read is started), and keeps the provider handle and the registered
\* listeners.
C12_DisconnectClearsAndIsLocal ==
  [][\A i \in Inst :
       disconnectWallet(i) =>
         /\ account'[i] = Null /\ signer'[i] = Null
         /\ chainId'[i] = None /\ network'[i] = None
         /\ \A j \in Inst \ {i} :
              /\ account'[j] = account[j] /\ signer'[j] = signer[j]
              /\ chainId'[j] = chainId[j] /\ network'[j] = network[j]
         /\ UNCHANGED <<provider, mounted, hasEthereum, wAccount, wChain>>
         /\ Listeners' = Listeners
         /\ UNCHANGED <<connPc, swPc, swRequests, initSigner, initNet>>
         /\ UNCHANGED <<pausedFetches, depCalls, wdCalls, xfCalls>>]_vars

\* the page connected and then disconnected: only disconnectWallet takes the
\* signer away
C12_Witness ==
  /\ connResult["ui"] = "ok"
  /\ connPc["ui"] = "idle"
  /\ signer["ui"] = Null
  /\ account["ui"] = Null
  /\ chainId["ui"] = None
  /\ provider["ui"]
  /\ wAccount # Null

\* ---- C13 (Spec)
\* C13: in the step in which the wallet emits accountsChanged with an empty
\* list, every listening copy of the session ends without account and without
\* signer, the form disconnectWallet leaves.
C13_EmptyAccountsDisconnects ==
  [][(wAccount # Null /\ wAccount' = Null) =>
       \A i \in Listeners : account'[i] = Null /\ signer'[i] = Null]_vars

\* ---- C14 (SpecClients)
\* the step is a call of deposit, of withdraw
DepositCalled == \E token \in Tokens, amount \in Amounts : deposit(token, amount)
WithdrawCalled == \E token \in Tokens, amount \in Amounts : withdraw(token, amount)

\* the session copy of useVault passes the wallet check of deposit / withdraw
VaultSessionReady ==
  /\ signer[VaultSess] # Null
  /\ vaultContract # None
  /\ account[VaultSess] # Null

\* C14: while the paused flag observed last is true, a call of deposit or of
\* withdraw ends at once without any write call (no approve, no vault
\* deposit, no vault withdraw) and without touching loading; it fails with
\* VaultPaused when the session passes the wallet check (the failure of that
\* check, WalletNotConnected, is raised first).
C14_PausedFailsBeforeAnyCall ==
  [][isPaused =>
       /\ DepositCalled =>
            /\ depPc' = "idle" /\ depCalls' = <<>> /\ loading' = loading
            /\ depResult' = IF VaultSessionReady THEN "VaultPaused"
                                                 ELSE "WalletNotConnected"
       /\ WithdrawCalled =>
            /\ wdPc' = "idle" /\ wdCalls' = <<>> /\ loading' = loading
            /\ wdResult' = IF VaultSessionReady THEN "VaultPaused"
                                                ELSE "WalletNotConnected"]_vars

\* deposit and withdraw were both refused on a connected session for the pause
C14_Witness ==
  /\ isPaused
  /\ VaultSessionReady
  /\ depResult = "VaultPaused" /\ depCalls = <<>>
  /\ wdResult = "VaultPaused" /\ wdCalls = <<>>
  /\ ~loading

\* ---- C15 (SpecClients)
TransferCalled ==
  \E args \in TransferArgs : transfer(args[1], args[2], args[3], args[4])
TransferETHCalled == \E args \in TransferETHArgs : transferETH(args[1], args[2])

\* C15: a call of deposit, withdraw, transfer or transferETH made while the
\* session copy of the client holds no signer fails with WalletNotConnected
\* in the same step, makes no call, and leaves loading (and, for the
\* transfers, error and success) as they were.
C15_NoSignerIsWalletNotConnected ==
  [][/\ signer[VaultSess] = Null =>
          /\ DepositCalled =>
               /\ depResult' = "WalletNotConnected" /\ depCalls' = <<>>
               /\ depPc' = "idle" /\ loading' = loading
          /\ WithdrawCalled =>
               /\ wdResult' = "WalletNotConnected" /\ wdCalls' = <<>>
               /\ wdPc' = "idle" /\ loading' = loading
     /\ (signer[TransferSess] = Null
           /\ (TransferCalled \/ TransferETHCalled)) =>
          /\ xfResult' = "WalletNotConnected" /\ xfCalls' = <<>>
          /\ xfPc' = "idle"
          /\ UNCHANGED <<xfLoading, xfError, xfSuccess>>]_vars

\* a transfer called while the client's session shows an account but holds no
\* signer
C15_Witness ==
  /\ signer[TransferSess] = Null
  /\ provider[TransferSess]
  /\ account[TransferSess] # Null
  /\ xfResult = "WalletNotConnected"
  /\ xfCalls = <<>>

\* ---- C16 (SpecBalance)
\* run k of fetchBalance is for the pair the tracker shows now
ForCurrentPair(k) ==
  /\ RowSess \in mounted
  /\ balFetches[k].token = tokenAddress
  /\ balFetches[k].owner = account[RowSess]

\* C16: when a fetch for the tracked (token, owner) is answered after a fetch
\* issued later for the same pair was answered, and the stored raw balance is
\* that later fetch's result, the stored raw balance stays that result.
C16_LaterFetchWins ==
  [][\A k \in 1..Len(balFetches) :
       (/\ BalanceAnswer(k, TRUE)
        /\ ForCurrentPair(k)
        /\ \E j \in (k + 1)..Len(balFetches) :
             /\ balFetches[j].status = "ok"
             /\ balFetches[j].token = balFetches[k].token
             /\ balFetches[j].owner = balFetches[k].owner
             /\ balanceRaw = balFetches[j].value)
       => balanceRaw' = balanceRaw]_vars

\* ---- C17 (SpecBalance)
\* C17: the answer (result or error) to a fetch whose token or owner is no
\* longer the tracker's, or whose tracker was released, changes neither the
\* stored raw balance nor error nor loading.
C17_StaleFetchDiscarded ==
  [][\A k \in 1..Len(balFetches), ok \in BOOLEAN :
       (BalanceAnswer(k, ok) /\ ~ForCurrentPair(k))
         => UNCHANGED <<balanceRaw, balError, balLoading>>]_vars

\* ---- C18 (SpecBalance)
\* the tracker has a pair to track
Tracking ==
  /\ RowSess \in mounted
  /\ provider[RowSess]
  /\ tokenAddress # Null
  /\ account[RowSess] # Null

\* C18: a Transfer event of the tracked token whose from or to is the tracked
\* owner, in whatever letter case, starts exactly one fetchBalance for the
\* tracked pair (reading the balance after the transfer); any other Transfer
\* event starts none.
C18_TransferTriggersOneRefetch ==
  [][\A e \in TransferEvents :
       TransferEvent(e[1], e[2], e[3]) =>
         IF /\ Tracking
            /\ e[1] = tokenAddress
            /\ \/ toLowerCase(e[2]) = toLowerCase(account[RowSess])
               \/ toLowerCase(e[3]) = toLowerCase(account[RowSess])
           THEN balFetches' =
                  Append(balFetches,
                         BalanceFetch(tokenAddress, account[RowSess],
                                      balanceOf(ledger', tokenAddress,
                                                account[RowSess])))
           ELSE balFetches' = balFetches]_vars

\* the owner 0xAAA received a unit in an event that spells it 0xaaa, and the
\* fetch started for it read the new balance
C18_Witness ==
  /\ Tracking
  /\ account[RowSess] = "0xAAA"
  /\ ledger["0xUSDC"]["0xaaa"] = 3
  /\ balFetches # <<>>
  /\ balFetches[Len(balFetches)].value = 3
  /\ balFetches[Len(balFetches)].owner = "0xAAA"

\* ---- C19 (SpecBalance)
\* C19: at most one Transfer listener is registered for the tracker, it is the
\* one for the tracker's current (token, owner), and a released tracker has
\* none.
C19_OneLiveSubscription ==
  /\ Len(subs) <= 1
  /\ subs # <<>> =>
       /\ Tracking
       /\ subs[1] = Subscription(tokenAddress, account[RowSess])
  /\ RowSess \notin mounted => subs = <<>>

\* token and owner both changed since the row was rendered
C19_Witness ==
  /\ subs = <<Subscription("0xDAI", "0xBBB")>>
  /\ tokenAddress = "0xDAI"
  /\ account[RowSess] = "0xBBB"

\* ---- C20 (SpecBalance)
\* a TokenInfo with the three values of the token at its address
CompleteTokenInfo(ti) ==
  /\ ti.address \in Tokens
  /\ ti.name = TokenMeta(ti.address).name
  /\ ti.symbol = TokenMeta(ti.address).symbol
  /\ ti.decimals = TokenMeta(ti.address).decimals

\* C20: a fetchTokenInfo with a failed read ends with the error
\* TokenMetadataUnavailable and stores nothing; one whose three reads
\* succeeded stores the three values with the address fetched; the TokenInfo
\* held is always complete for the address it carries.
C20_TokenInfoAllOrNothing ==
  [][/\ \A k \in 1..Len(regFetches), reads \in TokenInfoReads :
          (TokenInfoAnswer(k, reads) /\ RowSess \in mounted) =>
            IF \A f \in DOMAIN reads : reads[f]
              THEN /\ tokenInfo' # None
                   /\ tokenInfo'[1].address = regFetches[k].token
              ELSE /\ tokenInfo' = tokenInfo
                   /\ regError' = "TokenMetadataUnavailable"
     /\ tokenInfo' # None => CompleteTokenInfo(tokenInfo'[1])]_vars

\* the metadata of 0xUSDC was stored, the fetch for 0xDAI failed: nothing of
\* 0xDAI is held
C20_Witness ==
  /\ tokenAddress = "0xDAI"
  /\ regFetches = <<>>
  /\ regError = "TokenMetadataUnavailable"
  /\ tokenInfo # None
  /\ tokenInfo[1].address = "0xUSDC"

\* ---- C21 (SpecBalance)
\* the hook holds the TokenInfo of address t (compared in lower case)
Holds(ti, t) ==
  /\ ti # None
  /\ t # Null
  /\ toLowerCase(ti[1].address) = toLowerCase(t)

\* C21: asking for the TokenInfo of an address whose TokenInfo is already
\* held returns the held value and starts no run of the three reads (name,
\* symbol, decimals); the reads are started only on a miss.
C21_HeldTokenInfoIsNotReadAgain ==
  [][\A t \in Tokens :
       (SetToken(t) /\ Holds(tokenInfo, t))
         => (regFetches' = regFetches /\ tokenInfo' = tokenInfo)]_vars

\* ---- C22 (SpecRegistry)
\* C22: after the active chain changed, no TokenInfo read on the previous
\* chain is returned or used: the TokenInfo the hook holds (what it returns
\* and what the balance is formatted with) was read on the active chain.
C22_TokenInfoIsOfActiveChain ==
  (RowSess \in mounted /\ tokenInfo # None) => tokenInfoFrom = Some(wChain)

\* ---- C23 (SpecDisplay)
\* the amount raw / 10^decimals, exactly
Amount(info, raw) == formatUnits(raw, info[1].decimals)

BelowTenThousandth(v) == v.whole = <<0>> /\ FracLess(v.frac, <<0, 0, 0, 1>>)

\* C23: for every raw balance and decimals the display follows the rounding
\* policy on value = raw / 10^decimals: 0 gives "0.00", 0 < value < 0.0001
\* gives "< 0.0001", 0.0001 <= value < 1 gives the value with exactly 4
\* fraction digits, value >= 1 gives the grouped value with at most 6
\* fraction digits.
C23_DisplayFollowsRoundingPolicy ==
  (dispOut # None /\ dispInfo # None) =>
    LET v == Amount(dispInfo, dispRaw) IN
    dispOut[1] = IF IsZero(v) THEN "0.00"
                 ELSE IF BelowTenThousandth(v) THEN "< 0.0001"
                 ELSE IF v.whole = <<0>> THEN toFixed(v, 4)
                 ELSE toLocaleString(v, 6)

\* ---- C24 (SpecDisplay)
RenderedOneAndAHalf ==
  /\ dispOut # None
  /\ dispInfo = Some([decimals |-> 6])
  /\ dispRaw = <<1, 5, 0, 0, 0, 0, 0>>

\* C24 as stated: with decimals 6 and a balanceOf result of 1500000 the raw
\* amount is 1500000 and the display is "1.5000".
C24_DisplayOfOneAndAHalf == RenderedOneAndAHalf => dispOut[1] = "1.5000"

\* C24 amended: with decimals 6 and a balanceOf result of 1500000 the raw
\* amount is 1500000 and the display is "1.5", the amount being 1 or more and
\* so printed with at most 6 fraction digits and no trailing zeros.
C24_DisplayOfOneAndAHalfAmended == RenderedOneAndAHalf => dispOut[1] = "1.5"

C24_Witness == RenderedOneAndAHalf /\ RowSess \in mounted

\* ---- C25 (SpecVault)
\* C25: whenever the vault's paused() query fails, the paused flag observed
\* afterwards is false, also when an earlier query (of another chain's vault,
\* say) had observed true; nothing is raised to the caller.
C25_FailedPausedQueryGivesFalse ==
  [][(\E paused \in BOOLEAN : PausedAnswer(FALSE, paused))
       => isPaused' = FALSE]_vars

\* ---- C26 (SpecQueries)
\* C26: getUserBalance and getAllBalances never raise to their caller: with
\* any failures of the vault reads, without vault contract or without
\* account, they return a value (zero, or a list).
C26_BalanceQueriesNeverRaise ==
  /\ qryResult # None => qryResult.kind = "returned"
  /\ (qryResult # None /\ (\E k \in 1..Len(qryAnswers) : ~qryAnswers[k]))
       => qryResult.value = IF qryKind = "getUserBalance" THEN 0 ELSE <<>>
  /\ (qryResult # None /\ (qryAccount = Null \/ vaultContract = None))
       => qryResult.value = IF qryKind = "getUserBalance" THEN 0 ELSE <<>>

C26_Witness ==
  /\ qryResult # None
  /\ Len(qryTokens) = 2
  /\ qryAnswers = <<TRUE, FALSE>>

\* ---- C27 (SpecQueries)
\* C27: in getAllBalances the failure of one token's read does not abort the
\* batch: every token whose read succeeded is in the result with the balance
\* read; only the failed tokens are left out or reported as zero.
C27_FailedTokenDoesNotAbortBatch ==
  [][\A oks \in [1..Len(qryTokens) -> BOOLEAN] :
       AllBalancesAnswer(oks)
         => \A k \in 1..Len(qryTokens) :
              oks[k] => \E j \in 1..Len(qryResult'.value) :
                          qryResult'.value[j] =
                            VaultBalance(qryTokens[k],
                                         VaultPosition(qryAccount, qryTokens[k]))]_vars

\* ---- C28 (SpecVault)
\* C28: the raw amount in every approve, vault deposit and vault withdraw
\* call is the decimal amount scaled by 10^d, d being the decimals of the
\* call's token ("10" of a 6-decimal token gives 10 * 10^6), not a constant.
C28_AmountScaledByTokenDecimals ==
  /\ \A k \in 1..Len(depCalls) :
       depCalls[k].amount.scale = TokenMeta(depCalls[k].token).decimals
  /\ \A k \in 1..Len(wdCalls) :
       wdCalls[k].amount.scale = TokenMeta(wdCalls[k].token).decimals

\* ---- C29 (SpecApp)
SendCalls(run) ==
  {j \in 1..Len(run.calls) : run.calls[j].method = "eth_sendTransaction"}

\* C29: the write with estimation never submits a transaction when the
\* estimation call fails: a run whose estimateGas raised makes no submission
\* call, ends with an error set and records no transaction hash.
C29_NoSubmissionAfterFailedEstimate ==
  \A k \in 1..Len(appRuns) :
    appRuns[k].estimated = "failed"
      => /\ SendCalls(appRuns[k]) = {}
         /\ appRuns[k].pc = "done"
         /\ appRuns[k].error # Null
         /\ appRuns[k].hash = Null

C29_Witness ==
  \E k \in 1..Len(appRuns) :
    appRuns[k].estimated = "failed" /\ appError # Null

\* ---- C30 (SpecApp)
\* C30: for every gas estimate e the simulation returned, the transaction is
\* submitted with the explicit gas limit floor(e * 120 / 100), and only after
\* the estimate was obtained.
C30_GasLimitIsBufferedEstimate ==
  \A k \in 1..Len(appRuns) :
    \A j \in SendCalls(appRuns[k]) :
      /\ appRuns[k].estimated = "ok"
      /\ j > 1
      /\ appRuns[k].calls[j - 1].method = "eth_estimateGas"
      /\ appRuns[k].calls[j].gasLimit # None
      /\ LET g == appRuns[k].calls[j].gasLimit[1]
             e == appRuns[k].estimate[1]
         IN 100 * g <= 120 * e /\ 120 * e < 100 * (g + 1)

C30_Witness ==
  \E k \in 1..Len(appRuns) :
    /\ appRuns[k].estimate = Some(21001)
    /\ SendCalls(appRuns[k]) # {}

\* ---- C31 (SpecWrites)
\* the calls of cs made with the function fn
CallsOf(cs, fn) == {k \in 1..Len(cs) : cs[k].fn = fn}

\* a call that was refused, failed or reverted
FailedCall(c) == c.status \in {"rejected", "failed", "reverted", "unsupported"}

WriteErrors == {"TransactionRejected", "TransactionReverted", "ProviderError"}

\* C31: every write is single-attempt.  Within one invocation deposit makes
\* at most one approve and at most one vault deposit call, withdraw at most
\* one vault withdraw call, transfer at most one transfer call and
\* transferETH at most one value transfer; a call that failed is the last
\* call of its invocation, and the invocation has ended with the error
\* raised to the caller.
C31_WritesAreSingleAttempt ==
  /\ Cardinality(CallsOf(depCalls, "approve")) <= 1
  /\ Cardinality(CallsOf(depCalls, "deposit")) <= 1
  /\ Len(depCalls) <= 2
  /\ Len(wdCalls) <= 1
  /\ Len(xfCalls) <= 1
  /\ \A k \in 1..Len(depCalls) :
       FailedCall(depCalls[k]) =>
         k = Len(depCalls) /\ depPc = "idle" /\ depResult \in WriteErrors
  /\ \A k \in 1..Len(wdCalls) :
       FailedCall(wdCalls[k]) => wdPc = "idle" /\ wdResult \in WriteErrors
  /\ \A k \in 1..Len(xfCalls) :
       FailedCall(xfCalls[k]) =>
         xfPc = "idle" /\ xfResult \in WriteErrors /\ xfError = xfResult

\* a deposit whose approve was included and reverted: one call, the error
\* raised
C31_Witness ==
  /\ depPc = "idle"
  /\ depResult = "TransactionReverted"
  /\ Len(depCalls) = 1
  /\ depCalls[1].status = "reverted"

\* ---- C32 (SpecApp)
\* the messages App shows for a failed estimation, for insufficient funds and
\* for a declined signature
OtherFailureMessages ==
  {"Gas estimation failed. The transaction might revert.",
   "You don't have enough ETH for gas fees.",
   "Transaction rejected by user."}

\* C32: when a transaction that was submitted and included turns out to have
\* failed on-chain, the error shown is not the one of a failed estimation, of
\* insufficient funds or of a declined signature, and the hash of that
\* transaction stays shown with it.
C32_RevertedIsReportedAsReverted ==
  [][\A k \in 1..Len(appRuns) :
       AppMined(k, 0) =>
         /\ appError' # Null
         /\ appError' \notin OtherFailureMessages
         /\ appTxHash' = appRuns[k].hash]_vars

\* ---- C33 (SpecVault)
\* the step in which the wallet sends the transaction of the write call
\* deposit made last
DepositCallSubmitted ==
  /\ depPc \in {"approveSend", "depositSend"}
  /\ Len(depCalls') = Len(depCalls)
  /\ depCalls'[Len(depCalls')].status = "pending"

\* C33: a write call of deposit is submitted against the session as it is at
\* the moment of submission.  When the session's account changed after
\* deposit was called, the call is signed for the account the session holds
\* at submission; and the vault contract the call goes by (the one deposit
\* closed over) is still the session's vault contract, so no chainChanged
\* replaced it after deposit was called.
C33_WritesUseSessionAtSubmission ==
  [][DepositCallSubmitted =>
       /\ account[VaultSess] # depClosure.account
            => depCalls'[Len(depCalls')].from = account[VaultSess]
       /\ depClosure.vaultContract = vaultContract]_vars

\* ---- C34 (Spec)
\* C34: in every copy of the session that holds both a signer and an account,
\* the signer signs for that account; in particular the signer does not stay
\* the previous account's after accountsChanged named another account.
C34_SignerIsOfAccount ==
  \A i \in Inst :
    (signer[i] # Null /\ account[i] # Null) => signer[i] = account[i]

\* ---- C35 (SpecSwitch)
\* C35: every wallet_addEthereumChain request of switchNetwork(target)
\* identifies the target: its chainId parameter is the string "0x" followed
\* by the target in hexadecimal, and its chainName, rpcUrls and
\* blockExplorerUrls are the ones registered for the target, whatever chain
\* the session is on.
C35_AddRequestIdentifiesTarget ==
  \A i \in Inst :
    \A k \in 1..Len(swRequests[i]) :
      swRequests[i][k].method = "wallet_addEthereumChain" =>
        /\ swRequests[i][k].chainId = JsString(hexChainId(swTarget[i][1]))
        /\ swRequests[i][k].chainName = SUPPORTED_NETWORKS[swTarget[i][1]].name
        /\ swRequests[i][k].rpcUrls = getRpcUrls(swTarget[i][1])
        /\ swRequests[i][k].blockExplorerUrls =
             <<SUPPORTED_NETWORKS[swTarget[i][1]].explorerUrl>>

\* ---- C36 (SpecClients)
\* C36: every state-changing call (approve, vault deposit, vault withdraw,
\* token transfer, value transfer) is made through a handle bound to the
\* session's signer, none through a handle bound to the read-only provider.
C36_WritesGoThroughSigner ==
  /\ \A k \in 1..Len(depCalls) : depCalls[k].runner = "signer"
  /\ \A k \in 1..Len(wdCalls) : wdCalls[k].runner = "signer"
  /\ \A k \in 1..Len(xfCalls) : xfCalls[k].runner = "signer"

\* ---- C37 (SpecBalance)
\* a run of fetchBalance is in flight
FetchInFlight == \E k \in 1..Len(balFetches) : balFetches[k].status = "pending"

\* C37: the loading flag of each client is true exactly while one of its
\* operations is in flight: the balance tracker's while a fetchBalance run is
\* pending, useVault's while a deposit or a withdraw runs, useERC20Transfer's
\* while a transfer runs.  With two runs overlapping, the end of the first
\* does not clear the flag.
C37_LoadingWhileInFlight ==
  /\ RowSess \in mounted => (balLoading <=> FetchInFlight)
  /\ loading <=> (depPc # "idle" \/ wdPc # "idle")
  /\ xfLoading <=> xfPc # "idle"

\* ---- C38 (SpecDisplay)
\* C38: once the TokenInfo of the token is loaded, the decimals
\* useERC20Balance reports with the balance are the token's own decimals,
\* for a token with 0 decimals as well; 18 is reported in their place only
\* while no TokenInfo is loaded.
C38_ReportedDecimalsAreTheTokens ==
  /\ dispInfo # None => dispDecimals = dispInfo[1].decimals
  /\ dispInfo = None => dispDecimals = 18

\* ---- C39 (Spec)
\* C39: the chainId of a session copy never goes back to an older chain:
\* every step that sets chainId (and network) sets the chain the wallet is on
\* at that step, also the step that completes a connectWallet or an initial
\* network lookup which read the chain before a chainChanged was processed.
C39_ChainIdNeverReverts ==
  [][\A i \in Inst :
       (chainId'[i] # chainId[i] /\ chainId'[i] # None)
         => /\ chainId'[i] = Some(wChain')
            /\ network'[i] = Some(NetworkInfoFor(wChain'))]_vars

\* ---- C40 (Spec)
\* the WalletState of copy i is empty
EmptyWalletState(a, sg, cid, net, i) ==
  a[i] = Null /\ sg[i] = Null /\ cid[i] = None /\ net[i] = None

\* the step completes an await of a connectWallet of copy i, or one of the
\* lookups of its mount effect
LookupCompletes(i) ==
  \/ connPc[i] # "idle" /\ connPc'[i] # connPc[i]
  \/ initSigner[i] = "pending" /\ initSigner'[i] = "done"
  \/ initNet[i] = "pending" /\ initNet'[i] = "done"

\* C40: after disconnectWallet returned and until connectWallet is called
\* again, the WalletState of the copy stays empty: a connectWallet or an
\* initial lookup that was in flight when disconnectWallet ran does not put
\* back account, signer, chainId or network when it completes.
C40_DisconnectedStaysEmpty ==
  [][\A i \in Inst :
       (disconnected[i] /\ LookupCompletes(i))
         => EmptyWalletState(account', signer', chainId', network', i)]_vars

TypeOK ==
  /\ hasEthereum \in BOOLEAN
  /\ wAccount \in Accounts \cup {Null}
  /\ wChain \in Chains
  /\ provider \in [Inst -> BOOLEAN]
  /\ signer \in [Inst -> Accounts \cup {Null}]
  /\ account \in [Inst -> Accounts \cup {Null}]
  /\ \A i \in Inst : chainId[i] = None \/ chainId[i][1] \in Chains
  /\ connPc \in [Inst -> {"idle", "requestAccounts", "getNetwork", "getSigner"}]
====
